---- MODULE Spec2Model ----
(***************************************************************************)
(* Model of the testy extension (reginaldFerland/testy): the debounced     *)
(* change coordinator, the run orchestrator and the test-tree discovery.   *)
(*                                                                         *)
(* The repository holds several generations of the same components.  Each  *)
(* generation that a property is stated about is modelled under the name   *)
(* of its source, with a suffix where two generations share a name.        *)
(*                                                                         *)
(* The specifications share the module, one per component:                 *)
(*   SpecCoord     the change coordinator (debounce, cancel, auto-run)     *)
(*   SpecCoordLive the change coordinator with its timers scheduled        *)
(*   SpecRun       the run handlers                                        *)
(*   SpecRunHung   the run handlers, scheduled, with processes that may    *)
(*                 never exit                                              *)
(*   SpecRunLive   the run handlers, scheduled, with processes that exit   *)
(*   SpecExec      the external test process and its result                *)
(*   SpecTree      discovery, file events and the tree of test items       *)
(*   SpecScan      discovery over unreadable and special entries           *)
(*   SpecDebug     the debug handlers                                      *)
(*   SpecHandlers  the run handlers and the debug handlers                 *)
(*   SpecLocate    the upward search for the project file                  *)
(*   SpecClassify  the classification of a file as a test file             *)
(*   SpecExtract   the extraction of the test methods of one file          *)
(*   SpecMember    the files a create event and a rescan put in the tree   *)
(* Every specification leaves the variables of the other components        *)
(* unchanged.                                                              *)
(***************************************************************************)
EXTENDS Integers, Sequences, FiniteSets, TLC

(***************************************************************************)
(* ======================  CHANGE COORDINATOR  ==========================  *)
(* src/unnamed/part_002: debounce, initializeExtension.                    *)
(* Time is counted in units of 100 ms.                                     *)
(***************************************************************************)

\* Bounds of the coordinator model.
MaxTime == 7
MaxEvents == 3
MaxReconfig == 1
MaxDelay == 2

\* part_002:118  setTimeout(resolve, 100): the grace period, one time unit.
Grace == 1

\* The values the testy.debounceTime setting ranges over (in time units).
DelayValues == 1..MaxDelay

\* The watcher's three notifications and the testy.refreshTests command:
\* part_002:157-183 gives all four the same handler body.
EventKinds == {"change", "create", "delete", "refresh"}

\* clearTimeout / "timeout = undefined" (part_002:42,53).
NoTimer == -1

\* The two generations of the coordinator:
\*   "initializeExtension"  src/unnamed/part_002:74-190
\*   "activate"             src/src/extension.ts:7-76
CoordGens == {"initializeExtension", "activate"}

VARIABLES
    coordGen,         \* the generation of the coordinator
    now,              \* the clock
    debounceDelay,    \* part_002:81   let debounceDelay
    runWithCoverage,  \* part_002:82   let runWithCoverage
    testsRunning,     \* part_002:89   let testsRunning
    wait,             \* part_002:40   the wait captured by the current debounced closure
    timeout,          \* part_002:42   the timeout of the current debounced closure
    orphanTimers,     \* pending timeouts of closures that debouncedTestRun no longer names
    handlers,         \* event handlers suspended in cancelRunningTests
    autoRuns,         \* runs started by testing.runAll / testing.coverageAll, not yet finished
    nEvents,          \* history: number of events handled so far
    nReconfig,        \* history: number of debounceTime changes
    lastEventAt,      \* history: time of the latest event
    trigSinceEvent,   \* history: triggers fired since the latest event
    lastTrigAt,       \* history: time of the latest trigger
    lastTrigCoverage, \* history: command chosen by the latest trigger
    cmdError          \* history: where the latest error thrown by a command went,
                      \* and whether an event and its trigger followed it

coordVars == <<coordGen, now, debounceDelay, runWithCoverage, testsRunning, wait, timeout,
               orphanTimers, handlers, autoRuns, nEvents, nReconfig, lastEventAt,
               trigSinceEvent, lastTrigAt, lastTrigCoverage, cmdError>>

\* No command has thrown.
NoError == [fate |-> "none", event |-> FALSE, trigger |-> FALSE]

(***************************************************************************)
(* State of the run orchestrator: one run request, from the moment the host hands it to a run    *)
(* handler.  Three generations of the handler are modelled:                *)
(*   "concurrent"  src/unnamed/part_000:268-357 with TestExecutor          *)
(*                 (src/unnamed/part_003)                                  *)
(*   "sequential"  src/src/test-explorer/csharp-test-controller.ts:707-774 *)
(*   "simulated"   src/src/test-explorer/csharp-test-controller.ts:212-266 *)
(***************************************************************************)
VARIABLES
    variant,      \* the generation of runHandler that serves the request
    include,      \* request.include: a sequence of items, or NoInclude
    exclude,      \* request.exclude: a set of items
    stdoutText,   \* what the dotnet process of this behaviour writes to stdout
    stderrText,   \* what it writes to stderr
    cancelled,    \* token.isCancellationRequested
    pc,           \* position of the run handler
    queue,        \* the handler's queue of items (sequential generations)
    tasks,        \* one record per leaf marked started, in the order of run.started
    runEnds,      \* number of run.end() calls
    sessions,     \* the items vscode.debug.startDebugging was called for
    locator       \* one call of findProjectFile / findProjectForTest

runVars == <<variant, include, exclude, stdoutText, stderrText, cancelled, pc, queue,
             tasks, runEnds, sessions, locator>>

(***************************************************************************)
(* State of discovery: the file system, the tree of test items and the     *)
(* handlers in flight.  Four generations are modelled:                     *)
(*   "folder"      src/src/test-explorer/csharp-test-controller.ts:126-516 *)
(*   "flat"        src/unnamed/part_000:154-511 with TestDiscoveryService  *)
(*                 (src/src/services/test-discovery.ts)                    *)
(*   "functional"  src/src/test-explorer/csharp-test-controller.ts:609-1125*)
(*   "workspace"   src/unnamed/part_000:1-153 (class Workspace)            *)
(***************************************************************************)
VARIABLES
    gen,          \* the generation of the controller
    fs,           \* the workspace folder on disk: what each file holds
    rootItems,    \* testController.items
    kids,         \* item.children of every TestItem object
    testItems,    \* csharp-test-controller.ts:136  the Map testItems
    procs,        \* the discovery handlers called so far, each at its await
    events,       \* watcher notifications not yet delivered
    nFs,          \* history: number of changes made on disk
    deletedDone,  \* history: files whose delete event has been fully processed
    unreadable,   \* the files whose read and the directories whose listing fail
    hidden,       \* whether the name of the directory d starts with '.'
    special,      \* whether the workspace folder holds an entry that is neither
                  \* a plain file nor a directory
    probe,        \* one .cs file, by its name and the markers in its content,
                  \* and what discovery makes of it
    extraction,   \* one call of findTestMethods / extractTestMethods
    candidate     \* one .cs file, by its name and its workspace folder, and
                  \* whether its create event and a rescan add it to the tree

treeVars == <<gen, fs, rootItems, kids, testItems, procs, events, nFs, deletedDone,
              unreadable, special, hidden, probe, extraction, candidate>>

vars == <<coordVars, runVars, treeVars>>

\* A suspended handler: awaiting the testing.cancelRun command, or in the
\* grace period until time wake (part_002:116-118).
HandlerStates == [pc : {"cancelRun"}, wake : {NoTimer}]
                   \cup [pc : {"grace"}, wake : 0..(MaxTime + Grace)]

\* Removal of the i-th element of a sequence.
RemoveAt(s, i) == [j \in 1..(Len(s) - 1) |-> IF j < i THEN s[j] ELSE s[j + 1]]

\* part_002:45-68  the function debounce returns: clear the pending timeout
\* of this closure, set a new one `wait' from now.
debounced == timeout' = now + wait

\* part_002:112-120 cancelRunningTests, up to its first await: the flag is
\* reset and testing.cancelRun is requested for the runs in progress.
cancelRunningTests ==
    /\ testsRunning' = FALSE
    /\ autoRuns' = [i \in 1..Len(autoRuns) |-> [autoRuns[i] EXCEPT !.cancelRequested = TRUE]]

initializeExtension ==
    /\ coordGen \in CoordGens
    /\ now = 0
    /\ debounceDelay \in DelayValues
    /\ runWithCoverage \in BOOLEAN
    /\ testsRunning = FALSE
    /\ wait = debounceDelay
    /\ timeout = NoTimer
    /\ orphanTimers = <<>>
    /\ handlers = <<>>
    /\ autoRuns = <<>>
    /\ nEvents = 0
    /\ nReconfig = 0
    /\ lastEventAt = NoTimer
    /\ trigSinceEvent = 0
    /\ lastTrigAt = NoTimer
    /\ lastTrigCoverage = FALSE
    /\ cmdError = NoError

\* part_002:157-183  fileWatcher.onDidChange / onDidCreate / onDidDelete and
\* the refresh command:  await cancelRunningTests(); debouncedTestRun();
\* With testsRunning false the await resumes in the same turn and the timer
\* is armed at once; with testsRunning true the handler is suspended.
FsEvent ==
    /\ nEvents < MaxEvents
    /\ \E kind \in EventKinds :
        /\ nEvents' = nEvents + 1
        /\ lastEventAt' = now
        /\ trigSinceEvent' = 0
        /\ cmdError' = [cmdError EXCEPT !.event = (cmdError.fate # "none")]
        /\ IF testsRunning
             THEN /\ cancelRunningTests
                  /\ handlers' = Append(handlers, [pc |-> "cancelRun", wake |-> NoTimer])
                  /\ UNCHANGED timeout
             ELSE /\ debounced
                  /\ UNCHANGED <<testsRunning, autoRuns, handlers>>
    /\ UNCHANGED <<coordGen, now, debounceDelay, runWithCoverage, wait, orphanTimers, nReconfig,
                   lastTrigAt, lastTrigCoverage>>
    /\ UNCHANGED <<runVars, treeVars>>

\* part_002:116-118  the testing.cancelRun command returns; the handler
\* starts its grace period.
CancelRunReturns ==
    /\ \E h \in 1..Len(handlers) :
        /\ handlers[h].pc = "cancelRun"
        /\ handlers' = [handlers EXCEPT ![h] = [pc |-> "grace", wake |-> now + Grace]]
    /\ UNCHANGED <<coordGen, cmdError, now, debounceDelay, runWithCoverage, testsRunning, wait, timeout,
                   orphanTimers, autoRuns, nEvents, nReconfig, lastEventAt,
                   trigSinceEvent, lastTrigAt, lastTrigCoverage>>
    /\ UNCHANGED <<runVars, treeVars>>

\* GraceExpires of a handler that goes on only when the runs it asked to
\* cancel have ended.
GraceExpires_WhenRunsEnded ==
    /\ autoRuns = <<>>
    /\ \E h \in 1..Len(handlers) :
        /\ handlers[h].pc = "grace"
        /\ handlers[h].wake <= now
        /\ handlers' = RemoveAt(handlers, h)
        /\ debounced
    /\ UNCHANGED <<coordGen, cmdError, now, debounceDelay, runWithCoverage, testsRunning, wait,
                   orphanTimers, autoRuns, nEvents, nReconfig, lastEventAt,
                   trigSinceEvent, lastTrigAt, lastTrigCoverage>>
    /\ UNCHANGED <<runVars, treeVars>>

\* part_002:118 and 161/168/175/182: the grace period is over, the handler
\* resumes and calls debouncedTestRun().
GraceExpires ==
    /\ \E h \in 1..Len(handlers) :
        /\ handlers[h].pc = "grace"
        /\ handlers[h].wake <= now
        /\ handlers' = RemoveAt(handlers, h)
        /\ debounced
    /\ UNCHANGED <<coordGen, cmdError, now, debounceDelay, runWithCoverage, testsRunning, wait,
                   orphanTimers, autoRuns, nEvents, nReconfig, lastEventAt,
                   trigSinceEvent, lastTrigAt, lastTrigCoverage>>
    /\ UNCHANGED <<runVars, treeVars>>

\* The command the trigger executes, TRUE for testing.coverageAll: part_002:98-102
\* reads runWithCoverage when it fires; extension.ts:49 always executes
\* testing.runAll.
coverageCommand == IF coordGen = "activate" THEN FALSE ELSE runWithCoverage

\* part_002:92-109  the debounced function: set the flag and start the run
\* with the command the coverage setting selects now.  extension.ts:45-50:
\* the callback of the timer; it has no flag.
debouncedTestRun ==
    /\ testsRunning' = (coordGen = "initializeExtension")
    /\ autoRuns' = Append(autoRuns, [cancelRequested |-> FALSE, coverage |-> coverageCommand])
    /\ trigSinceEvent' = trigSinceEvent + 1
    /\ lastTrigAt' = now
    /\ lastTrigCoverage' = coverageCommand
    /\ cmdError' = [cmdError EXCEPT !.trigger = @ \/ cmdError.event]

\* part_002:52-67  the timeout of the current closure expires.
TimerFires ==
    /\ timeout # NoTimer
    /\ timeout <= now
    /\ timeout' = NoTimer
    /\ debouncedTestRun
    /\ UNCHANGED <<coordGen, now, debounceDelay, runWithCoverage, wait, orphanTimers, handlers,
                   nEvents, nReconfig, lastEventAt>>
    /\ UNCHANGED <<runVars, treeVars>>

\* part_002:52-67  the timeout of a closure that was replaced at part_002:130
\* expires: nothing cleared it, and its function is the same.
OrphanTimerFires ==
    /\ \E i \in 1..Len(orphanTimers) :
        /\ orphanTimers[i] <= now
        /\ orphanTimers' = RemoveAt(orphanTimers, i)
    /\ debouncedTestRun
    /\ UNCHANGED <<coordGen, now, debounceDelay, runWithCoverage, wait, timeout, handlers,
                   nEvents, nReconfig, lastEventAt>>
    /\ UNCHANGED <<runVars, treeVars>>

\* part_002:52-66  where an error thrown by the command goes: the promise
\* of the debounced function rejects after its finally and the catch of the
\* timer callback logs it.  extension.ts:45-50: the async callback of the
\* timer has no try, its promise rejects and nobody handles it.
thrownError ==
    [fate |-> IF coordGen = "activate" THEN "unhandled" ELSE "logged",
     event |-> FALSE, trigger |-> FALSE]

\* AutoRunCompletes with a debounced function that resets the flag after the
\* awaited command and not in a finally.
AutoRunCompletes_NoFinally ==
    /\ \E r \in 1..Len(autoRuns) : autoRuns' = RemoveAt(autoRuns, r)
    /\ \E threw \in BOOLEAN :
        /\ testsRunning' = IF threw THEN testsRunning ELSE FALSE
        /\ cmdError' = IF threw THEN thrownError ELSE cmdError
    /\ UNCHANGED <<coordGen, now, debounceDelay, runWithCoverage, wait, timeout, orphanTimers,
                   handlers, nEvents, nReconfig, lastEventAt, trigSinceEvent,
                   lastTrigAt, lastTrigCoverage>>
    /\ UNCHANGED <<runVars, treeVars>>

\* part_002:98-108  the awaited command of run r settles, by returning or by
\* throwing; finally resets the flag.  extension.ts:49: the awaited command
\* settles.
AutoRunCompletes ==
    /\ \E r \in 1..Len(autoRuns) : autoRuns' = RemoveAt(autoRuns, r)
    /\ \E threw \in BOOLEAN :
        /\ testsRunning' = FALSE
        /\ cmdError' = IF threw THEN thrownError ELSE cmdError
    /\ UNCHANGED <<coordGen, now, debounceDelay, runWithCoverage, wait, timeout, orphanTimers,
                   handlers, nEvents, nReconfig, lastEventAt, trigSinceEvent,
                   lastTrigAt, lastTrigCoverage>>
    /\ UNCHANGED <<runVars, treeVars>>

\* part_002:125-147  testy.debounceTime changed: a new debounced closure
\* replaces the old one, whose pending timeout is left running.
\* extension.ts:28-36: debounceDelay is assigned; the next setTimeout reads it
\* and the pending timer is untouched.
DelayChanged ==
    /\ nReconfig < MaxReconfig
    /\ \E d \in DelayValues :
        /\ debounceDelay' = d
        /\ wait' = d
    /\ nReconfig' = nReconfig + 1
    /\ IF coordGen = "activate"
         THEN UNCHANGED <<timeout, orphanTimers>>
         ELSE /\ timeout' = NoTimer
              /\ orphanTimers' = IF timeout = NoTimer THEN orphanTimers
                                 ELSE Append(orphanTimers, timeout)
    /\ UNCHANGED <<coordGen, cmdError, now, runWithCoverage, testsRunning, handlers, autoRuns, nEvents,
                   lastEventAt, trigSinceEvent, lastTrigAt, lastTrigCoverage>>
    /\ UNCHANGED <<runVars, treeVars>>

\* part_002:148-152  testy.runWithCoverage changed (extension.ts has no
\* handler for it: there the variable stands for the setting alone).
CoverageChanged ==
    /\ \E c \in BOOLEAN :
        /\ c # runWithCoverage
        /\ runWithCoverage' = c
    /\ UNCHANGED <<coordGen, cmdError, now, debounceDelay, testsRunning, wait, timeout, orphanTimers,
                   handlers, autoRuns, nEvents, nReconfig, lastEventAt,
                   trigSinceEvent, lastTrigAt, lastTrigCoverage>>
    /\ UNCHANGED <<runVars, treeVars>>

\* A timer or a grace period that is due runs before the clock moves on.
SomethingDue ==
    \/ timeout # NoTimer /\ timeout <= now
    \/ \E i \in 1..Len(orphanTimers) : orphanTimers[i] <= now
    \/ \E h \in 1..Len(handlers) : handlers[h].pc = "grace" /\ handlers[h].wake <= now

Tick ==
    /\ now < MaxTime
    /\ ~SomethingDue
    /\ now' = now + 1
    /\ UNCHANGED <<coordGen, cmdError, debounceDelay, runWithCoverage, testsRunning, wait, timeout,
                   orphanTimers, handlers, autoRuns, nEvents, nReconfig, lastEventAt,
                   trigSinceEvent, lastTrigAt, lastTrigCoverage>>
    /\ UNCHANGED <<runVars, treeVars>>

CoordNext ==
    \/ FsEvent
    \/ CancelRunReturns
    \/ GraceExpires
    \/ TimerFires
    \/ OrphanTimerFires
    \/ AutoRunCompletes
    \/ DelayChanged
    \/ CoverageChanged
    \/ Tick


(***************************************************************************)
(* ========================  RUN ORCHESTRATOR  ==========================  *)
(***************************************************************************)

\* Bounds of the run model.
MaxInclude == 2
MaxExclude == 1
MaxOut == 6

RunVariants == {"concurrent", "sequential", "simulated"}

NoNode == "none"
NoInclude == <<NoNode>>

\* The tree the request is made on.  The concurrent and the sequential
\* handlers belong to controllers whose tree is flat: file items at the root
\* (part_000:439-441, csharp-test-controller.ts:1014-1024), test methods
\* below them.  fileZ is a file whose name matches and that holds no test
\* method.  The simulated handler belongs to the controller that builds
\* folder items (csharp-test-controller.ts:271-358); there fileZ is a file
\* item whose read failed after it was created.
FlatNodes == {"fileA", "fileZ", "m1", "m2"}
FolderTreeNodes == {"dir"} \cup FlatNodes
NodesOf(v) == IF v = "simulated" THEN FolderTreeNodes ELSE FlatNodes
Nodes == NodesOf(variant)

\* item.parent
Parent(n) ==
    CASE n \in {"m1", "m2"} -> "fileA"
      [] n \in {"fileA", "fileZ"} -> IF variant = "simulated" THEN "dir" ELSE NoNode
      [] OTHER -> NoNode

\* item.children, in insertion order
Children(n) ==
    CASE n = "fileA" -> <<"m1", "m2">>
      [] n = "dir" -> <<"fileA", "fileZ">>
      [] OTHER -> <<>>

\* testController.items
Roots == IF variant = "simulated" THEN <<"dir">> ELSE <<"fileA", "fileZ">>

\* test.uri: every item is created with the uri of its file or folder
\* (test-discovery.ts:56-60 and 85-89).
HasUri(n) == n \in FolderTreeNodes

\* Sequences over S of length at most n.
SeqsUpTo(S, n) == UNION {[1..k -> S] : k \in 0..n}

\* part_000:501-510, csharp-test-controller.ts:972-981  isAncestorOf
RECURSIVE isAncestorOf(_, _)
isAncestorOf(ancestor, test) ==
    LET parent == Parent(test)
    IN  IF parent = NoNode THEN FALSE
        ELSE IF parent = ancestor THEN TRUE
        ELSE isAncestorOf(ancestor, parent)

\* The test "skip tests that should be excluded" of each generation:
\* part_000:289, csharp-test-controller.ts:728, csharp-test-controller.ts:232.
IsExcluded(test) ==
    CASE variant = "concurrent" -> \E excluded \in exclude : isAncestorOf(excluded, test)
      [] variant = "sequential" ->
            \E excluded \in exclude : excluded = test \/ isAncestorOf(excluded, test)
      [] OTHER -> test \in exclude

\* part_000:276-282 (and 716-721, 220-225): the queue the handler starts from.
InitialQueue == IF include = NoInclude THEN Roots ELSE include

\* part_000:284-301  "First identify all leaf nodes to run in parallel".
RECURSIVE collectLeaves(_)
collectLeaves(q) ==
    IF q = <<>> THEN <<>>
    ELSE LET test == Head(q)
         IN  IF IsExcluded(test) THEN collectLeaves(Tail(q))
             ELSE IF Len(Children(test)) > 0
                    THEN collectLeaves(Tail(q) \o Children(test))
                    ELSE <<test>> \o collectLeaves(Tail(q))

\* csharp-test-controller.ts:724-739 (and 228-243): the loop of a sequential
\* handler, run up to the next leaf it marks started, or to its exit.
RECURSIVE loopToNextLeaf(_)
loopToNextLeaf(q) ==
    IF q = <<>> \/ cancelled THEN [queue |-> q, leaf |-> NoNode]
    ELSE LET test == Head(q)
         IN  IF IsExcluded(test) THEN loopToNextLeaf(Tail(q))
             ELSE IF Len(Children(test)) > 0
                    THEN loopToNextLeaf(Tail(q) \o Children(test))
                    ELSE [queue |-> Tail(q), leaf |-> test]

(***************************************************************************)
(* The external process and TestExecutor.executeDotnetTest                 *)
(* (part_003:76-138; the same code at csharp-test-controller.ts:866-924).  *)
(* Output is a sequence of tokens: the word Failed, a blank, a newline, a  *)
(* word, and the two brackets.                                             *)
(***************************************************************************)
OutTokens == {"Failed", "s", "n", "w", "[", "]"}

\* \s in the pattern
IsSpace(tok) == tok \in {"s", "n"}
\* . in the pattern (no s flag: any character but a line terminator)
IsDot(tok) == tok # "n"

ExitCodes == {0, 1}
NoCode == -1

\* part_003:124  /Failed\s+(.*?)\s+\[(.*?)\]/ matches text from token i on,
\* with k tokens for the first \s+ and g tokens for group 1.
MatchAt(text, i, k, g) ==
    /\ text[i] = "Failed"
    /\ i + k + g + 3 <= Len(text)
    /\ \A x \in (i + 1)..(i + k) : IsSpace(text[x])
    /\ \A x \in (i + k + 1)..(i + k + g) : IsDot(text[x])
    /\ \E m \in 1..(Len(text) - (i + k + g + 2)) :
          /\ \A x \in (i + k + g + 1)..(i + k + g + m) : IsSpace(text[x])
          /\ text[i + k + g + m + 1] = "["
          /\ \E c \in (i + k + g + m + 2)..Len(text) :
                /\ text[c] = "]"
                /\ \A x \in (i + k + g + m + 2)..(c - 1) : IsDot(text[x])

\* The ways the pattern matches text: <<i, k, g>>.
Matches(text) ==
    LET starts == {i \in 1..Len(text) : text[i] = "Failed"}
    IN  {c \in starts \X (1..Len(text)) \X (0..Len(text)) :
            MatchAt(text, c[1], c[2], c[3])}

\* part_003:125  stdout.match(errorRegex): the match the engine returns is the
\* leftmost one; the first \s+ is greedy, group 1 is lazy.
Prefers(c, d) ==
    \/ c[1] < d[1]
    \/ c[1] = d[1] /\ c[2] > d[2]
    \/ c[1] = d[1] /\ c[2] = d[2] /\ c[3] <= d[3]

match(text) ==
    LET M == Matches(text)
    IN  IF M = {} THEN [found |-> FALSE, group1 |-> <<>>]
        ELSE LET c == CHOOSE c \in M : \A d \in M : Prefers(c, d)
             IN  [found |-> TRUE, group1 |-> SubSeq(text, c[1] + c[2] + 1, c[1] + c[2] + c[3])]

NoMessage == [kind |-> "none", name |-> <<>>]
\* part_003:121  'Test failed'
GenericMessage == [kind |-> "Test failed", name |-> <<>>]
\* part_003:127  `Test failed: ${match[1]}`
NamedMessage(name) == [kind |-> "Test failed: ", name |-> name]
\* part_000:343  error.message
ExceptionMessage == [kind |-> "error.message", name |-> <<>>]
\* csharp-test-controller.ts:255
SimulatedMessage == [kind |-> "Test failed with an error", name |-> <<>>]

\* closeResult without the search of stdout (part_003:123-128).
closeResult_NoSearch(code, stdout, stderr) ==
    IF code = 0
      THEN [success |-> TRUE, message |-> NoMessage]
      ELSE [success |-> FALSE, message |-> GenericMessage]

\* part_003:110-136  dotnetProcess.on('close', code => ...): the result the
\* promise resolves to.
closeResult(code, stdout, stderr) ==
    IF code = 0
      THEN [success |-> TRUE, message |-> NoMessage]
      ELSE LET m == match(stdout)
           IN  [success |-> FALSE,
                message |-> IF m.found THEN NamedMessage(m.group1) ELSE GenericMessage]

(***************************************************************************)
(* The run handlers.                                                       *)
(***************************************************************************)
\* The result of the project locator (extension.ts:130-162) while the call is
\* awaiting, and `undefined`.
Searching == -2
NotFound == -1

\* No call of the locator is followed.
NoCall == [fn |-> "none", projects |-> {}, testFileDir |-> 0, maxDepth |-> 0,
           currentDir |-> 0, i |-> 0, result |-> NotFound, inspected |-> {},
           descriptors |-> 1, picked |-> 0]

TaskPcs == {"lookup", "proc", "simWait", "done"}
\* How the dispatch of a leaf goes on after run.started: findProjectFile
\* returns a project, returns undefined or throws, or it returns a project
\* and spawn throws inside executeDotnetTest (part_003:93), which rejects
\* the promise the handler awaits.
LookupResults == {"found", "notfound", "throws", "spawnthrows"}
Statuses == {"passed", "failed", "skipped", "errored"}

\* run.started(test): a new task.  status and message are what the handler
\* passes to run.passed / failed / skipped / errored; startedCancelled tells
\* that the token was signalled when the leaf was started, late that the task
\* reported to the run after run.end(), thrown that the handler's catch
\* clause ran for the leaf.
NewTask(test, taskPc) ==
    [test |-> test, pc |-> taskPc, lookup |-> "pending", spawned |-> FALSE,
     out |-> 0, err |-> 0, code |-> NoCode, status |-> "none", message |-> NoMessage,
     startedCancelled |-> cancelled, late |-> FALSE, thrown |-> FALSE]

\* part_000:304-312  the callback of testLeafNodes.map up to its first await.
startLeaf(test) ==
    IF ~HasUri(test)
      THEN [NewTask(test, "done") EXCEPT !.status = "skipped"]
      ELSE NewTask(test, "lookup")

RunIdle ==
    /\ variant = "concurrent"
    /\ include = NoInclude
    /\ exclude = {}
    /\ stdoutText = <<>>
    /\ stderrText = <<>>
    /\ cancelled = FALSE
    /\ pc = "none"
    /\ queue = <<>>
    /\ tasks = <<>>
    /\ runEnds = 0
    /\ sessions = <<>>
    /\ locator = NoCall

\* The line dotnet test prints for a failed test, and a word on stderr.
FailedLine == <<"Failed", "s", "w", "s", "[", "]">>
ErrLine == <<"w">>

\* A request on the tree: request.include, request.exclude.
RunRequest ==
    /\ variant \in RunVariants
    /\ include \in {NoInclude} \cup SeqsUpTo(Nodes, MaxInclude)
    /\ exclude \in {e \in SUBSET Nodes : Cardinality(e) <= MaxExclude}
    /\ stdoutText = FailedLine
    /\ stderrText = ErrLine
    /\ cancelled = FALSE
    /\ pc = "requested"
    /\ queue = <<>>
    /\ tasks = <<>>
    /\ runEnds = 0
    /\ sessions = <<>>
    /\ locator = NoCall

\* The host signals the token of the request.
Cancel ==
    /\ pc # "none"
    /\ ~cancelled
    /\ cancelled' = TRUE
    /\ UNCHANGED <<variant, sessions, locator, include, exclude, stdoutText, stderrText, pc, queue, tasks,
                   runEnds>>
    /\ UNCHANGED <<coordVars, treeVars>>

\* part_000:268-357  runHandler, from its call to its first await: collect
\* the leaves, start every one of them, then test the token once.
runHandler ==
    /\ variant = "concurrent"
    /\ pc = "requested"
    /\ LET testLeafNodes == collectLeaves(InitialQueue)
       IN  tasks' = [i \in 1..Len(testLeafNodes) |-> startLeaf(testLeafNodes[i])]
    /\ IF cancelled
         THEN pc' = "ended" /\ runEnds' = runEnds + 1
         ELSE pc' = "awaitAll" /\ UNCHANGED runEnds
    /\ UNCHANGED <<variant, sessions, locator, include, exclude, stdoutText, stderrText, cancelled, queue>>
    /\ UNCHANGED <<coordVars, treeVars>>

\* part_000:353-356  Promise.all(runPromises) resolves; run.end().
PromiseAllResolves ==
    /\ pc = "awaitAll"
    /\ \A t \in 1..Len(tasks) : tasks[t].pc = "done"
    /\ pc' = "ended"
    /\ runEnds' = runEnds + 1
    /\ UNCHANGED <<variant, sessions, locator, include, exclude, stdoutText, stderrText, cancelled, queue,
                   tasks>>
    /\ UNCHANGED <<coordVars, treeVars>>

\* loopResumes of a handler that does not call run.end() after its loop.
loopResumes_NoEnd(ts) ==
    LET r == loopToNextLeaf(queue)
    IN  /\ queue' = r.queue
        /\ IF r.leaf = NoNode
             THEN /\ tasks' = ts
                  /\ UNCHANGED <<pc, runEnds>>
             ELSE /\ tasks' = Append(ts, NewTask(r.leaf,
                                 IF variant = "simulated" THEN "simWait" ELSE "lookup"))
                  /\ pc' = "loop"
                  /\ UNCHANGED runEnds

\* The loop of a sequential handler resumes with tasks ts: it starts the
\* next leaf, or leaves the loop and calls run.end()
\* (csharp-test-controller.ts:724-773 and 228-265).
loopResumes(ts) ==
    LET r == loopToNextLeaf(queue)
    IN  /\ queue' = r.queue
        /\ IF r.leaf = NoNode
             THEN /\ tasks' = ts
                  /\ pc' = "ended"
                  /\ runEnds' = runEnds + 1
             ELSE /\ tasks' = Append(ts, NewTask(r.leaf,
                                 IF variant = "simulated" THEN "simWait" ELSE "lookup"))
                  /\ pc' = "loop"
                  /\ UNCHANGED runEnds

\* taskSettles of a handler whose loop is left when a leaf has failed.
taskSettles_StopOnFailure(ts) ==
    IF variant = "concurrent"
      THEN tasks' = ts /\ UNCHANGED <<pc, queue, runEnds>>
      ELSE IF \E t \in 1..Len(ts) : ts[t].status = "failed"
             THEN tasks' = ts /\ pc' = "ended" /\ runEnds' = runEnds + 1 /\ UNCHANGED queue
             ELSE loopResumes(ts)

\* What follows the end of a task: the concurrent handler waits for the
\* others, a sequential handler goes round its loop.
taskSettles(ts) ==
    IF variant = "concurrent"
      THEN tasks' = ts /\ UNCHANGED <<pc, queue, runEnds>>
      ELSE loopResumes(ts)

\* csharp-test-controller.ts:707-739 and 212-243: a sequential handler, from
\* its call to its first await.
runHandlerSeq ==
    /\ variant # "concurrent"
    /\ pc = "requested"
    /\ LET r == loopToNextLeaf(InitialQueue)
       IN  /\ queue' = r.queue
           /\ IF r.leaf = NoNode
                THEN /\ tasks' = tasks
                     /\ pc' = "ended"
                     /\ runEnds' = runEnds + 1
                ELSE /\ tasks' = Append(tasks, NewTask(r.leaf,
                                    IF variant = "simulated" THEN "simWait" ELSE "lookup"))
                     /\ pc' = "loop"
                     /\ UNCHANGED runEnds
    /\ UNCHANGED <<variant, sessions, locator, include, exclude, stdoutText, stderrText, cancelled>>
    /\ UNCHANGED <<coordVars, treeVars>>

\* afterLookup without the return of part_000:319: the process is spawned for
\* a test whose project was not found.
afterLookup_NoReturn(tk, r) ==
    CASE r = "notfound" -> [tk EXCEPT !.lookup = r, !.status = "skipped",
                                      !.spawned = TRUE, !.pc = "proc"]
      [] r = "throws" -> [tk EXCEPT !.lookup = r, !.status = "failed", !.thrown = TRUE,
                                    !.message = ExceptionMessage, !.pc = "done"]
      [] r = "spawnthrows" -> [tk EXCEPT !.lookup = "found", !.status = "failed",
                                         !.thrown = TRUE,
                                         !.message = ExceptionMessage, !.pc = "done"]
      [] OTHER -> [tk EXCEPT !.lookup = r, !.spawned = TRUE, !.pc = "proc"]

\* afterLookup as it would be if the process went on after the catch clause
\* had reported the leaf: its close reports the leaf once more.
afterLookup_ReportAfterCatch(tk, r) ==
    CASE r = "notfound" -> [tk EXCEPT !.lookup = r, !.status = "skipped", !.pc = "done"]
      [] r = "throws" -> [tk EXCEPT !.lookup = r, !.status = "failed", !.thrown = TRUE,
                                    !.message = ExceptionMessage, !.pc = "done"]
      [] r = "spawnthrows" -> [tk EXCEPT !.lookup = "found", !.status = "failed",
                                         !.thrown = TRUE, !.spawned = TRUE,
                                         !.message = ExceptionMessage, !.pc = "proc"]
      [] OTHER -> [tk EXCEPT !.lookup = r, !.spawned = TRUE, !.pc = "proc"]

\* part_000:315-345 (csharp-test-controller.ts:743-769): the task tk after
\* findProjectFile settled with r.  Not found: skipped, and return.  Thrown:
\* the catch (part_000:341-345) reports failed with error.message.  Found:
\* executeDotnetTest spawns the process, or spawn throws and the same catch
\* runs.
afterLookup(tk, r) ==
    CASE r = "notfound" -> [tk EXCEPT !.lookup = r, !.status = "skipped", !.pc = "done"]
      [] r = "throws" -> [tk EXCEPT !.lookup = r, !.status = "failed", !.thrown = TRUE,
                                    !.message = ExceptionMessage, !.pc = "done"]
      [] r = "spawnthrows" -> [tk EXCEPT !.lookup = "found", !.status = "failed",
                                         !.thrown = TRUE,
                                         !.message = ExceptionMessage, !.pc = "done"]
      [] OTHER -> [tk EXCEPT !.lookup = r, !.spawned = TRUE, !.pc = "proc"]

\* The await of findProjectFile resumes.
LookupReturns ==
    /\ \E t \in 1..Len(tasks), r \in LookupResults :
        /\ tasks[t].pc = "lookup"
        /\ LET tk == [afterLookup(tasks[t], r) EXCEPT !.late = @ \/ pc = "ended"]
           IN  IF tk.pc = "done"
                 THEN taskSettles([tasks EXCEPT ![t] = tk])
                 ELSE /\ tasks' = [tasks EXCEPT ![t] = tk]
                      /\ UNCHANGED <<pc, queue, runEnds>>
    /\ UNCHANGED <<variant, sessions, locator, include, exclude, stdoutText, stderrText, cancelled>>
    /\ UNCHANGED <<coordVars, treeVars>>

\* part_003:98-108  the 'data' events of stdout or of stderr: collect the
\* chunks and forward them with run.appendOutput.  The close handler reads
\* the concatenation of the chunks only, so a stream is delivered in one step.
ProcData ==
    /\ \E t \in 1..Len(tasks) :
        /\ tasks[t].pc = "proc"
        /\ \/ /\ tasks[t].out < Len(stdoutText)
              /\ tasks' = [tasks EXCEPT ![t].out = Len(stdoutText),
                                        ![t].late = @ \/ pc = "ended"]
           \/ /\ tasks[t].err < Len(stderrText)
              /\ tasks' = [tasks EXCEPT ![t].err = Len(stderrText),
                                        ![t].late = @ \/ pc = "ended"]
    /\ UNCHANGED <<variant, sessions, locator, include, exclude, stdoutText, stderrText, cancelled, pc, queue,
                   runEnds>>
    /\ UNCHANGED <<coordVars, treeVars>>

\* part_003:110-136 and part_000:336-340: the process closes with an exit
\* code (after its streams have ended); the handler reports passed or failed.
ProcClose ==
    /\ \E t \in 1..Len(tasks), code \in ExitCodes :
        /\ tasks[t].pc = "proc"
        /\ tasks[t].out = Len(stdoutText)
        /\ tasks[t].err = Len(stderrText)
        /\ LET result == closeResult(code, SubSeq(stdoutText, 1, tasks[t].out),
                                     SubSeq(stderrText, 1, tasks[t].err))
           IN  taskSettles([tasks EXCEPT ![t] =
                   [@ EXCEPT !.code = code,
                             !.status = IF result.success THEN "passed" ELSE "failed",
                             !.message = result.message,
                             !.late = @ \/ pc = "ended",
                             !.pc = "done"]])
    /\ UNCHANGED <<variant, sessions, locator, include, exclude, stdoutText, stderrText, cancelled>>
    /\ UNCHANGED <<coordVars, treeVars>>

\* csharp-test-controller.ts:245-258  the simulated execution: the 500 ms
\* timer expires, Math.random() decides.
SimulatedTestEnds ==
    /\ \E t \in 1..Len(tasks), pass \in BOOLEAN :
        /\ tasks[t].pc = "simWait"
        /\ taskSettles([tasks EXCEPT ![t] =
               [@ EXCEPT !.status = IF pass THEN "passed" ELSE "failed",
                         !.message = IF pass THEN NoMessage ELSE SimulatedMessage,
                         !.pc = "done"]])
    /\ UNCHANGED <<variant, sessions, locator, include, exclude, stdoutText, stderrText, cancelled>>
    /\ UNCHANGED <<coordVars, treeVars>>

RunNext ==
    \/ Cancel
    \/ runHandler
    \/ PromiseAllResolves
    \/ runHandlerSeq
    \/ LookupReturns
    \/ ProcData
    \/ ProcClose
    \/ SimulatedTestEnds

(***************************************************************************)
(* The debug handlers of the two controllers that run dotnet:              *)
(*   "concurrent"  src/unnamed/part_000:362-424                            *)
(*   "sequential"  src/src/test-explorer/csharp-test-controller.ts:779-861 *)
(***************************************************************************)

\* 'Failed to start debugging' (part_000:415)
DebugFailedMessage == [kind |-> "Failed to start debugging", name |-> <<>>]

\* part_000:378-387  the loop over the queue: the first item without
\* children, in the order of the queue; testToDebug keeps its value when the
\* queue runs empty.
RECURSIVE firstLeafInQueue(_, _)
firstLeafInQueue(q, testToDebug) ==
    IF q = <<>> THEN testToDebug
    ELSE IF Len(Children(Head(q))) = 0 THEN Head(q)
    ELSE firstLeafInQueue(Tail(q) \o Children(Head(q)), testToDebug)

\* part_000:369-389 and csharp-test-controller.ts:787-805  "Get a single test
\* to debug".  The loop of the second handler runs while (queue.length > 0 &&
\* !testToDebug): testToDebug already holds request.include[0], so the body
\* is never entered.
testToDebug ==
    IF include = NoInclude \/ Len(include) = 0 THEN NoNode
    ELSE LET first == include[1]
         IN  IF Len(Children(first)) > 0 /\ variant = "concurrent"
               THEN firstLeafInQueue(<<first>>, first)
               ELSE first

\* A debug request on the tree.
DebugRequest ==
    /\ variant \in {"concurrent", "sequential"}
    /\ include \in {NoInclude} \cup SeqsUpTo(Nodes, MaxInclude)
    /\ exclude \in {e \in SUBSET Nodes : Cardinality(e) <= MaxExclude}
    /\ stdoutText = <<>>
    /\ stderrText = <<>>
    /\ cancelled = FALSE
    /\ pc = "debugRequested"
    /\ queue = <<>>
    /\ tasks = <<>>
    /\ runEnds = 0
    /\ sessions = <<>>
    /\ locator = NoCall

\* part_000:390-394  debugHandler as it would be with the return of the
\* branch "no test to debug" but without its run.end().
debugHandler_NoEnd ==
    /\ pc = "debugRequested"
    /\ IF testToDebug = NoNode \/ (variant = "concurrent" /\ ~HasUri(testToDebug))
         THEN /\ pc' = "ended"
              /\ UNCHANGED <<tasks, runEnds>>
         ELSE /\ tasks' = <<NewTask(testToDebug, "lookup")>>
              /\ pc' = "debugLookup"
              /\ UNCHANGED runEnds
    /\ UNCHANGED <<variant, sessions, locator, include, exclude, stdoutText, stderrText, cancelled,
                   queue>>
    /\ UNCHANGED <<coordVars, treeVars>>

\* part_000:362-400, csharp-test-controller.ts:779-817  debugHandler from its
\* call to its first await, or to its return when there is no test to debug.
debugHandler ==
    /\ pc = "debugRequested"
    /\ IF testToDebug = NoNode \/ (variant = "concurrent" /\ ~HasUri(testToDebug))
         THEN /\ pc' = "ended"
              /\ runEnds' = runEnds + 1
              /\ UNCHANGED tasks
         ELSE /\ tasks' = <<NewTask(testToDebug, "lookup")>>
              /\ pc' = "debugLookup"
              /\ UNCHANGED runEnds
    /\ UNCHANGED <<variant, sessions, locator, include, exclude, stdoutText, stderrText, cancelled,
                   queue>>
    /\ UNCHANGED <<coordVars, treeVars>>

\* part_000:400-413, csharp-test-controller.ts:818-833  the await of the
\* project lookup resumes: not found, skipped and run.end(); thrown, the catch
\* reports failed and run.end(); found, vscode.debug.startDebugging is called.
DebugLookupReturns ==
    /\ pc = "debugLookup"
    /\ \E r \in {"found", "notfound", "throws"} :
        CASE r = "notfound" ->
               /\ tasks' = [tasks EXCEPT ![1].lookup = r, ![1].status = "skipped",
                                         ![1].pc = "done"]
               /\ pc' = "ended"
               /\ runEnds' = runEnds + 1
               /\ UNCHANGED sessions
          [] r = "throws" ->
               /\ tasks' = [tasks EXCEPT ![1].lookup = r, ![1].status = "failed",
                                         ![1].thrown = TRUE,
                                         ![1].message = ExceptionMessage, ![1].pc = "done"]
               /\ pc' = "ended"
               /\ runEnds' = runEnds + 1
               /\ UNCHANGED sessions
          [] OTHER ->
               /\ tasks' = [tasks EXCEPT ![1].lookup = r]
               /\ sessions' = Append(sessions, tasks[1].test)
               /\ pc' = "startDebugging"
               /\ UNCHANGED runEnds
    /\ UNCHANGED <<variant, locator, include, exclude, stdoutText, stderrText, cancelled, queue>>
    /\ UNCHANGED <<coordVars, treeVars>>

\* part_000:413-424 with part_003:41-65, csharp-test-controller.ts:833-861:
\* startDebugging settles.  Thrown: debugTest returns false and the first
\* handler reports 'Failed to start debugging', the catch of the second
\* reports error.message.  Otherwise no status is reported: the value the
\* promise resolves to (true for a session started, false for a launch the
\* host refused) is read by neither debugTest nor the second handler.
\* run.end().  The field spawned of the task tells that the session started.
StartDebuggingReturns ==
    /\ pc = "startDebugging"
    /\ \E r \in {"started", "refused", "throws"} :
        tasks' = [tasks EXCEPT
                    ![1] = IF r = "throws"
                             THEN [@ EXCEPT !.status = "failed", !.thrown = TRUE,
                                            !.message = IF variant = "concurrent"
                                                          THEN DebugFailedMessage
                                                          ELSE ExceptionMessage,
                                            !.pc = "done"]
                             ELSE [@ EXCEPT !.spawned = (r = "started"), !.pc = "done"]]
    /\ pc' = "ended"
    /\ runEnds' = runEnds + 1
    /\ UNCHANGED <<variant, sessions, locator, include, exclude, stdoutText, stderrText, cancelled,
                   queue>>
    /\ UNCHANGED <<coordVars, treeVars>>

DebugNext ==
    \/ debugHandler
    \/ DebugLookupReturns
    \/ StartDebuggingReturns


(***************************************************************************)
(* The project locator: CSharpUtils.findProjectFile (extension.ts:130-162) *)
(* and findProjectForTest (csharp-test-controller.ts:929-967).             *)
(* The test file lies in a chain of directories: directory 0 is the root   *)
(* of the file system, directory d + 1 lies in directory d.                *)
(***************************************************************************)

\* Bounds of the locator model.
MaxDirDepth == 6
MaxSearchDepth == 6
MaxDescriptors == 2

\* extension.ts:130  maxDepth = 5; csharp-test-controller.ts:939
DefaultMaxDepth == 5

Locators == {"findProjectFile", "findProjectForTest"}

\* path.dirname on a directory: the root is its own parent.
dirname(d) == IF d = 0 THEN 0 ELSE d - 1

\* A call: the function, the directories that hold a .csproj file, the
\* directory of the test file and the argument maxDepth.
LocatorCall ==
    /\ locator \in [fn : Locators,
                    projects : SUBSET (0..MaxDirDepth),
                    testFileDir : 0..MaxDirDepth,
                    maxDepth : 0..MaxSearchDepth,
                    currentDir : {0}, i : {0}, result : {NotFound}, inspected : {{}},
                    descriptors : 1..MaxDescriptors, picked : {0}]
    /\ locator.fn = "findProjectForTest" => locator.maxDepth = DefaultMaxDepth
    /\ variant = "concurrent"
    /\ include = NoInclude
    /\ exclude = {}
    /\ stdoutText = <<>>
    /\ stderrText = <<>>
    /\ cancelled = FALSE
    /\ pc = "locate"
    /\ queue = <<>>
    /\ tasks = <<>>
    /\ runEnds = 0
    /\ sessions = <<>>

\* The head of the for loop (extension.ts:136): the next findFiles is awaited
\* while i < maxDepth, otherwise the function returns undefined.
loopHead_OneMore(L) ==
    IF L.i <= L.maxDepth THEN [L EXCEPT !.result = Searching]
                         ELSE [L EXCEPT !.result = NotFound]

loopHead(L) ==
    IF L.i < L.maxDepth THEN [L EXCEPT !.result = Searching]
                        ELSE [L EXCEPT !.result = NotFound]

\* extension.ts:130-137  the call, up to its first await.
findProjectFile ==
    /\ pc = "locate"
    /\ locator' = loopHead([locator EXCEPT !.currentDir = locator.testFileDir, !.i = 0])
    /\ pc' = "locating"
    /\ UNCHANGED <<variant, sessions, include, exclude, stdoutText, stderrText, cancelled,
                   queue, tasks, runEnds>>
    /\ UNCHANGED <<coordVars, treeVars>>

\* extension.ts:137-158  findFiles('*.csproj' in currentDir, null, 1)
\* resumes: a file found is returned; otherwise the search moves to the
\* parent, or stops at the root.  The host stops its search at the first
\* match it comes upon and gives no order of the matches: files[0] is any
\* one of the descriptors of the directory (picked is its rank by name).
FindCsprojReturns ==
    /\ pc = "locating"
    /\ locator.result = Searching
    /\ \E k \in 1..locator.descriptors :
       LET L == [locator EXCEPT !.inspected = @ \cup {locator.currentDir}]
           parentDir == dirname(L.currentDir)
       IN  locator' =
             IF L.currentDir \in L.projects
             THEN [L EXCEPT !.result = L.currentDir, !.picked = k]
             ELSE IF parentDir = L.currentDir THEN [L EXCEPT !.result = NotFound]
             ELSE loopHead([L EXCEPT !.currentDir = parentDir, !.i = @ + 1])
    /\ UNCHANGED <<variant, sessions, include, exclude, stdoutText, stderrText, cancelled,
                   pc, queue, tasks, runEnds>>
    /\ UNCHANGED <<coordVars, treeVars>>

LocateNext ==
    \/ findProjectFile
    \/ FindCsprojReturns


(***************************************************************************)
(* ==========================  DISCOVERY  ===============================  *)
(* The workspace folder holds the file ATest.cs and the directory d with   *)
(* the file d/BTest.cs.  A file is absent, holds no test method, or holds  *)
(* the test method T.  Both file names match the test-file pattern.        *)
(***************************************************************************)

\* Bounds of the discovery model.
MaxProcs == 2
MaxFsChanges == 2

TreeGens == {"folder", "flat", "functional", "workspace"}

Root == "root"
Dir == "d"
Files == {"ATest.cs", "d/BTest.cs"}
Contents == {"absent", "none", "tests"}

\* No call of the extraction of test methods is followed.
NoExtraction == [fn |-> "none", source |-> <<>>, p |-> 1, lastIndex |-> 0,
                 testMethods |-> <<>>, done |-> TRUE]

\* No file is followed through its create event and a rescan.
NoCandidate == [name |-> <<>>, folder |-> 1, byEvent |-> "none", byScan |-> "none"]

\* No file is followed through its classification.
NoProbe == [ending |-> "Other", markers |-> {}, state |-> "none", leaves |-> FALSE]

\* A file that declares two test methods of the same name T (two classes in
\* one file, or overloads).
ScanContents == Contents \cup {"twice"}

\* findTestMethods (csharp-test-controller.ts:457-507), extractTestMethods
\* (extension.ts:169-193), extractTestItems (part_000:122-132): the names of
\* the test methods found in a file, in the order of the matches.
Methods(content) ==
    CASE content = "tests" -> <<"T">>
      [] content = "twice" -> <<"T", "T">>
      [] OTHER -> <<>>

\* The id of the item of test method T of file f: `${fileItem.id}/${name}`
\* (csharp-test-controller.ts:330) or `${fileId}::${name}`
\* (test-discovery.ts:84 and csharp-test-controller.ts:1092).
MethodId(f) == IF f = "ATest.cs" THEN "ATest.cs::T" ELSE "d/BTest.cs::T"

\* The name of the entry that is neither a plain file nor a directory (a
\* symbolic link: FileType.SymbolicLink, alone or combined with File).
Link == "link"

Ids == {Dir} \cup Files \cup {MethodId(f) : f \in Files}

\* path.dirname
FolderOf(f) == IF f = "d/BTest.cs" THEN Dir ELSE Root

\* A TestItem object: its id and the handler call that created it.
Objs == Ids \X (1..MaxProcs)
NoObj == <<"none", 0>>

\* Every order of the elements of S.
Orders(S) ==
    {q \in [1..Cardinality(S) -> S] : \A i, j \in 1..Cardinality(S) : i # j => q[i] # q[j]}

\* vscode.workspace.fs.readDirectory(folder) on the disk d0: the entries, in
\* any order.
readDirectory(d0, folder) ==
    IF folder = Root
      THEN Orders({Dir} \cup {f \in Files : FolderOf(f) = Root /\ d0[f] # "absent"}
                        \cup (IF special THEN {Link} ELSE {}))
      ELSE Orders({f \in Files : FolderOf(f) = Dir /\ d0[f] # "absent"})

\* extension.ts:119-122  isLikelyTestFile and the glob of test-discovery.ts:10.
isTestFile(f) == f \in Files

\* test-discovery.ts:29-44, csharp-test-controller.ts:994-999  findFiles with
\* the test-file pattern, in any order.
findTestFiles(d0) == Orders({f \in Files : isTestFile(f) /\ d0[f] # "absent"})

\* The tree as one value: root collection, children, and the Map.
Tree == [root |-> rootItems, kids |-> kids, map |-> testItems]

\* TestItemCollection.add as it would be if it kept an item of the same id.
collAdd_NoReplace(T, parent, item) ==
    IF parent = NoObj
      THEN [T EXCEPT !.root = @ \cup {item}]
      ELSE [T EXCEPT !.kids[parent] = @ \cup {item}]

\* TestItemCollection.add(item): an item with the same id is replaced.
\* parent is the owner of the collection, NoObj for testController.items.
collAdd(T, parent, item) ==
    IF parent = NoObj
      THEN [T EXCEPT !.root = {o \in @ : o[1] # item[1]} \cup {item}]
      ELSE [T EXCEPT !.kids[parent] = {o \in @ : o[1] # item[1]} \cup {item}]

\* TestItemCollection.delete(id)
collDelete(T, parent, id) ==
    IF parent = NoObj
      THEN [T EXCEPT !.root = {o \in @ : o[1] # id}]
      ELSE [T EXCEPT !.kids[parent] = {o \in @ : o[1] # id}]

\* The items reachable from testController.items, each with the id of the
\* collection that holds it.
SnapshotOf(T) ==
    LET l1 == T.root
        l2 == UNION {T.kids[o] : o \in l1}
    IN  {<<o[1], Root>> : o \in l1}
          \cup UNION {{<<c[1], o[1]>> : c \in T.kids[o]} : o \in l1}
          \cup UNION {{<<c[1], o[1]>> : c \in T.kids[o]} : o \in l2}

\* The items reachable from testController.items, each with the item whose
\* collection holds it.
ReachableItems ==
    LET l1 == {<<o, NoObj>> : o \in rootItems}
        l2 == UNION {{<<c, o>> : c \in kids[o]} : o \in rootItems}
        l3 == UNION {{<<c, n[1]>> : c \in kids[n[1]]} : n \in l2}
    IN  l1 \cup l2 \cup l3

\* The handler calls that have not returned.
Active == {i \in 1..Len(procs) : procs[i].pc # "done"}

\* A handler call at its first await.  trigger and tpath: what called it;
\* started: the number of changes on disk before it; overlap: whether another
\* call was in flight during it; snapshot: the tree it left when it returned;
\* rejected: whether the promise of the call was rejected; before: the items
\* of the tree when it was called; scanner and hasTests: the class Workspace
\* that made the scan and the nodes it gave hasTests true.
NewProc(kind, trigger, tpath, at, started, overlap) ==
    [kind |-> kind, trigger |-> trigger, tpath |-> tpath, pc |-> at,
     rest |-> <<>>, inDir |-> FALSE, dirRest |-> <<>>,
     folderItem |-> NoObj, fileItem |-> NoObj, path |-> Root,
     fsStart |-> started, fsEnd |-> started, overlap |-> overlap, snapshot |-> {},
     rejected |-> FALSE, before |-> ReachableItems, scanner |-> "none", hasTests |-> {}]

\* The handler calls after a new one has begun: those in flight overlap it.
Overlapped == [i \in 1..Len(procs) |-> IF i \in Active THEN [procs[i] EXCEPT !.overlap = TRUE]
                                                       ELSE procs[i]]

(***************************************************************************)
(* Generation "folder".                                                    *)
(***************************************************************************)

\* csharp-test-controller.ts:363-388 and 393-418  getOrCreateFolderItem,
\* getOrCreateFileItem: the item the Map holds under id, or a new one added
\* to the parent's collection and to the Map.
getOrCreateItem(T, id, parent, me) ==
    IF T.map[id] # NoObj
      THEN [tree |-> T, item |-> T.map[id]]
      ELSE [tree |-> [collAdd(T, parent, <<id, me>>) EXCEPT !.map[id] = <<id, me>>],
            item |-> <<id, me>>]

\* csharp-test-controller.ts:294-299 and 349-353: an item left without
\* children is taken out of the parent's collection and of the Map.
removeIfEmpty(T, item, parent) ==
    IF T.kids[item] = {}
      THEN [collDelete(T, parent, item[1]) EXCEPT !.map[item[1]] = NoObj]
      ELSE T

\* csharp-test-controller.ts:279-304  the loop of discoverTestsInFolder, run
\* by call me from the entry it has reached up to its next await or its end.
RECURSIVE discoverTestsInFolder(_, _, _)
discoverTestsInFolder(T, p, me) ==
    LET entries == IF p.inDir THEN p.dirRest ELSE p.rest
        parent == IF p.inDir THEN p.folderItem ELSE NoObj
        q == IF p.inDir THEN [p EXCEPT !.dirRest = Tail(@)] ELSE [p EXCEPT !.rest = Tail(@)]
    IN  IF entries = <<>>
          THEN IF p.inDir
                 THEN \* the recursive call returned: "Only keep folder items if
                      \* they have children"
                      discoverTestsInFolder(removeIfEmpty(T, p.folderItem, NoObj),
                          [p EXCEPT !.inDir = FALSE, !.folderItem = NoObj], me)
                 ELSE [tree |-> T, proc |-> [p EXCEPT !.pc = "done"]]
          ELSE IF Head(entries) = Link \/ (Head(entries) = Dir /\ hidden)
                 THEN \* neither Directory nor File: no branch of 287-303 is taken;
                      \* a name that starts with '.': skipped at 281-283
                      discoverTestsInFolder(T, q, me)
          ELSE IF Head(entries) = Dir
                 THEN LET g == getOrCreateItem(T, Dir, parent, me)
                      IN  [tree |-> g.tree,
                           proc |-> [q EXCEPT !.inDir = TRUE, !.folderItem = g.item,
                                              !.pc = "readdir", !.path = Dir]]
                 ELSE LET g == getOrCreateItem(T, Head(entries), parent, me)
                      IN  [tree |-> g.tree,
                           proc |-> [q EXCEPT !.fileItem = g.item, !.pc = "readfile",
                                              !.path = Head(entries)]]

\* csharp-test-controller.ts:329-346  the loop over the methods found: an item
\* is created and added for every id the Map does not hold yet.
RECURSIVE addNewMethods(_, _, _, _, _)
addNewMethods(T, fileItem, testId, names, me) ==
    IF names = <<>> THEN T
    ELSE addNewMethods(
           IF T.map[testId] = NoObj
             THEN [collAdd(T, fileItem, <<testId, me>>) EXCEPT !.map[testId] = <<testId, me>>]
             ELSE T,
           fileItem, testId, Tail(names), me)

\* csharp-test-controller.ts:313-358  discoverTestsInFile after readFile
\* settled with content: a failed read leaves the item as it is; otherwise
\* the methods not yet in the Map are added and an item without children is
\* removed.
discoverTestsInFile(T, p, content, me) ==
    LET parent == IF p.inDir THEN p.folderItem ELSE NoObj
        T1 == addNewMethods(T, p.fileItem, MethodId(p.path), Methods(content), me)
    IN  IF content = "absent" THEN T ELSE removeIfEmpty(T1, p.fileItem, parent)

\* csharp-test-controller.ts:179-181  refreshHandler clears the tree and the
\* Map, as it would without testItems.clear().
refreshHandler_NoClear(T) == [T EXCEPT !.root = {}]

\* csharp-test-controller.ts:179-181  refreshHandler clears the tree and the
\* Map.
refreshHandler(T) == [T EXCEPT !.root = {}, !.map = [id \in Ids |-> NoObj]]

(***************************************************************************)
(* Generations "flat" and "functional".                                    *)
(***************************************************************************)

\* part_000:438-441 (csharp-test-controller.ts:1009-1025): parseTestFile
\* creates the file item, items.add puts it at the root, resolveTestMethods
\* clears its children and awaits openTextDocument.
addTestFile(T, p, uri, me) ==
    [tree |-> [collAdd(T, NoObj, <<uri, me>>) EXCEPT !.kids[<<uri, me>>] = {}],
     proc |-> [p EXCEPT !.fileItem = <<uri, me>>, !.pc = "opendoc", !.path = uri]]

\* part_000:437-442 (csharp-test-controller.ts:1001-1003): the loop over the
\* files found, up to its next await or its end.
refreshLoop(T, p, me) ==
    IF p.rest = <<>>
      THEN [tree |-> T, proc |-> [p EXCEPT !.pc = "done"]]
      ELSE addTestFile(T, [p EXCEPT !.rest = Tail(@)], Head(p.rest), me)

\* test-discovery.ts:83-101  the loop over the methods found: an item is
\* created for each and added to the children of the file item.
RECURSIVE addMethods(_, _, _, _, _)
addMethods(T, fileItem, testId, names, me) ==
    IF names = <<>> THEN T
    ELSE addMethods(collAdd(T, fileItem, <<testId, me>>), fileItem, testId, Tail(names), me)

\* test-discovery.ts:80-98 (csharp-test-controller.ts:1074-1101): after
\* openTextDocument settled with content, an item is created for each method
\* and added to the file item.  A failed open is caught and logged.
resolveTestMethods(T, p, content, me) ==
    addMethods(T, p.fileItem, MethodId(p.path), Methods(content), me)

(***************************************************************************)
(* Generation "workspace".                                                 *)
(***************************************************************************)

\* part_000:93-120  Workspace.scanFolder has no try: a readDirectory that
\* fails rejects its promise, and the default branch of the switch throws for
\* an entry that is neither Directory nor File.  Promise.all passes either
\* rejection up to scanWorkspace.
scanRejects == special \/ Dir \in unreadable

\* The generations of the class Workspace:
\*   "getTestItems"  part_000:76-152 and part_001:76-153: a FileNode holds
\*                   the test items getTestItems extracts
\*   "fileHasTests"  csharp-test-controller.ts:69-124: a FileNode holds the
\*                   answer of fileHasTests and no children
WorkspaceGens == {"getTestItems", "fileHasTests"}

\* part_000:76-152  Workspace.scanWorkspace / scanFolder / getTestItems: a
\* FolderNode for every directory and a FileNode for every file, whatever
\* hasTests says; a file whose read fails gets no test item (the catch of
\* getTestItems).  csharp-test-controller.ts:91-114: the same without test
\* items.
scanFolder(w, d0) ==
    {<<Dir, Root>>}
      \cup {<<f, FolderOf(f)>> : f \in {g \in Files : d0[g] # "absent"}}
      \cup {<<MethodId(f), f>> : f \in {g \in Files : /\ w = "getTestItems"
                                                      /\ Methods(d0[g]) # <<>>
                                                      /\ g \notin unreadable}}

\* hasTests of the FileNode of file f: `tests.length > 0` (part_000:107-111),
\* or what fileHasTests answers (csharp-test-controller.ts:103-106 and
\* 116-122): true for every name that ends in .cs.
fileHasTests(w, d0, f) ==
    IF w = "fileHasTests" THEN TRUE
    ELSE Methods(d0[f]) # <<>> /\ f \notin unreadable

\* The nodes a scan gives hasTests true: a FileNode as above, a FolderNode
\* and the root node when some child has it (part_000:83-86 and 99-103).
hasTestsNodes(w, d0) ==
    LET files == {f \in Files : d0[f] # "absent" /\ fileHasTests(w, d0, f)}
        dirs == {FolderOf(f) : f \in files} \ {Root}
    IN  files \cup dirs \cup (IF files \cup dirs # {} THEN {Root} ELSE {})

(***************************************************************************)
(* Actions of discovery.                                                   *)
(***************************************************************************)

TreeIdle ==
    /\ gen = "workspace"
    /\ fs = [f \in Files |-> "absent"]
    /\ rootItems = {}
    /\ kids = [o \in Objs |-> {}]
    /\ testItems = [id \in Ids |-> NoObj]
    /\ procs = <<>>
    /\ events = <<>>
    /\ nFs = 0
    /\ deletedDone = {}
    /\ unreadable = {}
    /\ special = FALSE
    /\ hidden = FALSE
    /\ extraction = NoExtraction
    /\ candidate = NoCandidate
    /\ probe = NoProbe

\* The first await each generation starts a rebuild with.
FirstAwait == IF gen = "folder" THEN "readdir" ELSE "findfiles"

\* After construction: the constructors of the folder and the flat
\* controller and activate() have called the rebuild without awaiting it
\* (csharp-test-controller.ts:157-159, part_000:195, csharp-test-controller.ts:701).
TreeStart ==
    /\ gen \in TreeGens
    /\ fs \in [Files -> Contents]
    /\ rootItems = {}
    /\ kids = [o \in Objs |-> {}]
    /\ testItems = [id \in Ids |-> NoObj]
    /\ procs = IF gen = "workspace" THEN <<>>
               ELSE <<NewProc("rebuild", "init", Root, FirstAwait, 0, FALSE)>>
    /\ events = <<>>
    /\ nFs = 0
    /\ deletedDone = {}
    /\ unreadable = {}
    /\ special = FALSE
    /\ hidden = FALSE
    /\ extraction = NoExtraction
    /\ candidate = NoCandidate
    /\ probe = NoProbe

\* Call i reaches its next await, or returns, leaving the tree T.
Settle(T, p, i) ==
    /\ rootItems' = T.root
    /\ kids' = T.kids
    /\ testItems' = T.map
    /\ procs' = [procs EXCEPT ![i] =
                    IF p.pc = "done" THEN [p EXCEPT !.snapshot = SnapshotOf(T), !.fsEnd = nFs]
                                     ELSE p]
    /\ deletedDone' = IF p.pc = "done" /\ p.trigger = "delete" /\ fs[p.tpath] = "absent"
                        THEN deletedDone \cup {p.tpath}
                        ELSE deletedDone
    /\ UNCHANGED <<gen, unreadable, special, hidden, probe, extraction, candidate, fs, events, nFs>>

\* csharp-test-controller.ts:174-187  refreshHandler; part_000:429-434
\* refreshAllTests; csharp-test-controller.ts:986-999  findCSharpTestFiles:
\* a rebuild from its call to its first await.
StartRebuild(trigger, tpath) ==
    /\ Len(procs) < MaxProcs
    /\ LET T == IF gen = "folder" THEN refreshHandler(Tree) ELSE [Tree EXCEPT !.root = {}]
       IN  /\ rootItems' = T.root
           /\ testItems' = T.map
    /\ procs' = Append(Overlapped,
                       NewProc("rebuild", trigger, tpath, FirstAwait, nFs, Active # {}))
    /\ UNCHANGED <<gen, unreadable, special, hidden, probe, extraction, candidate, fs, kids, nFs, deletedDone>>

\* The refresh button or command, or resolveHandler(undefined)
\* (csharp-test-controller.ts:153 and 192-195, part_000:203-207 and 256-259,
\* csharp-test-controller.ts:629-632 and 665-668).
RefreshRequested ==
    /\ gen \in {"folder", "flat", "functional"}
    /\ StartRebuild("refresh", Root)
    /\ UNCHANGED events
    /\ UNCHANGED <<coordVars, runVars>>

\* part_000:20-26  resolveHandler(undefined) of the first controller:
\* workspace.scanWorkspace(), of either generation of the class.  The scan
\* is taken to read the disk at once.
scanWorkspace ==
    /\ gen = "workspace"
    /\ Len(procs) < MaxProcs
    /\ \E w \in WorkspaceGens :
        \* one extension holds one class Workspace: every scan is made by it
        /\ \A i \in 1..Len(procs) : procs[i].scanner = w
        /\ procs' = Append(procs, [NewProc("rebuild", "refresh", Root, "done", nFs, FALSE)
                                  EXCEPT !.scanner = w,
                                         !.snapshot = IF scanRejects THEN {} ELSE scanFolder(w, fs),
                                         !.hasTests = IF scanRejects THEN {}
                                                      ELSE hasTestsNodes(w, fs),
                                         !.rejected = scanRejects])
    /\ UNCHANGED <<gen, unreadable, special, hidden, probe, extraction, candidate, fs, rootItems, kids, testItems, events, nFs, deletedDone>>
    /\ UNCHANGED <<coordVars, runVars>>

\* A file is created, changed or deleted on disk; the watcher on **/*.cs
\* (which the first controller does not have) queues its notification.
FsWrite ==
    /\ nFs < MaxFsChanges
    /\ \E f \in Files, c \in Contents :
        /\ c # fs[f]
        /\ fs' = [fs EXCEPT ![f] = c]
        /\ events' = IF gen = "workspace" THEN events
                     ELSE Append(events,
                            [kind |-> IF fs[f] = "absent" THEN "create"
                                      ELSE IF c = "absent" THEN "delete" ELSE "change",
                             path |-> f])
        /\ deletedDone' = deletedDone \ {f}
    /\ nFs' = nFs + 1
    /\ UNCHANGED <<gen, unreadable, special, hidden, probe, extraction, candidate, rootItems, kids, testItems, procs>>
    /\ UNCHANGED <<coordVars, runVars>>

\* A handler other than a rebuild begins on the file item and awaits
\* openTextDocument.
StartFileHandler(kind, e, r) ==
    /\ Len(procs) < MaxProcs
    /\ rootItems' = r.tree.root
    /\ kids' = r.tree.kids
    /\ procs' = Append(Overlapped, r.proc)
    /\ UNCHANGED <<testItems, deletedDone>>

\* The watcher delivers its next notification.
\*   folder      csharp-test-controller.ts:161-168  every event: refreshHandler
\*   flat        part_000:233-251 and 451-496
\*   functional  csharp-test-controller.ts:675-695 and 1030-1064
EventDelivered ==
    /\ events # <<>>
    /\ events' = Tail(events)
    /\ LET e == Head(events)
           me == Len(procs) + 1
           existing == {o \in rootItems : o[1] = e.path}
           new == NewProc("file", e.kind, e.path, "opendoc", nFs, Active # {})
       IN  CASE gen = "folder" -> StartRebuild(e.kind, e.path)
             [] gen # "folder" /\ e.kind = "delete" ->
                   \* handleFileDeleted / removeTestFile
                   /\ rootItems' = {o \in rootItems : o[1] # e.path}
                   /\ deletedDone' = IF fs[e.path] = "absent" THEN deletedDone \cup {e.path}
                                                               ELSE deletedDone
                   /\ UNCHANGED <<kids, testItems, procs>>
             [] gen # "folder" /\ e.kind = "change" /\ existing # {} ->
                   \* handleFileChanged / checkAndUpdateTestFile on the item found:
                   \* resolveTestMethods clears its children and awaits
                   LET item == CHOOSE o \in existing : TRUE
                   IN  StartFileHandler("file", e,
                          [tree |-> [Tree EXCEPT !.kids[item] = {}],
                           proc |-> [new EXCEPT !.fileItem = item, !.path = e.path]])
             [] gen = "functional" /\ e.kind = "change" /\ existing = {} ->
                   \* checkAndUpdateTestFile: nothing to update
                   UNCHANGED <<rootItems, kids, testItems, procs, deletedDone>>
             [] OTHER ->
                   \* handleFileCreated / checkAndAddTestFile
                   IF isTestFile(e.path)
                     THEN StartFileHandler("file", e, addTestFile(Tree, new, e.path, me))
                     ELSE UNCHANGED <<rootItems, kids, testItems, procs, deletedDone>>
    /\ UNCHANGED <<gen, unreadable, special, hidden, probe, extraction, candidate, fs, nFs>>
    /\ UNCHANGED <<coordVars, runVars>>

\* What readFile / openTextDocument of file f settles with: its content, or
\* "absent" when the call throws (no such file, or a file that cannot be read).
contentRead(f) == IF f \in unreadable THEN "absent" ELSE fs[f]

\* csharp-test-controller.ts:276  await readDirectory resumes with the entries.
ReadDirReturns ==
    /\ \E i \in 1..Len(procs) :
        /\ procs[i].pc = "readdir"
        /\ \E entries \in (IF procs[i].path \in unreadable
                              THEN {<<>>}   \* thrown, caught at 305-307: no entry
                              ELSE readDirectory(fs, procs[i].path)) :
            LET p == IF procs[i].path = Root THEN [procs[i] EXCEPT !.rest = entries]
                                             ELSE [procs[i] EXCEPT !.dirRest = entries]
                r == discoverTestsInFolder(Tree, p, i)
            IN  Settle(r.tree, r.proc, i)
    /\ UNCHANGED <<coordVars, runVars>>

\* csharp-test-controller.ts:322  await readFile resumes, or throws.
ReadFileReturns ==
    /\ \E i \in 1..Len(procs) :
        /\ procs[i].pc = "readfile"
        /\ LET T == discoverTestsInFile(Tree, procs[i], contentRead(procs[i].path), i)
               r == discoverTestsInFolder(T, [procs[i] EXCEPT !.fileItem = NoObj], i)
           IN  Settle(r.tree, r.proc, i)
    /\ UNCHANGED <<coordVars, runVars>>

\* part_000:434, csharp-test-controller.ts:999  await findFiles resumes.
FindFilesReturns ==
    /\ \E i \in 1..Len(procs) :
        /\ procs[i].pc = "findfiles"
        /\ \E files \in findTestFiles(fs) :
            LET r == refreshLoop(Tree, [procs[i] EXCEPT !.rest = files], i)
            IN  Settle(r.tree, r.proc, i)
    /\ UNCHANGED <<coordVars, runVars>>

\* test-discovery.ts:80, csharp-test-controller.ts:1074  await
\* openTextDocument resumes, or throws.
OpenDocReturns ==
    /\ \E i \in 1..Len(procs) :
        /\ procs[i].pc = "opendoc"
        /\ LET T == resolveTestMethods(Tree, procs[i], contentRead(procs[i].path), i)
               p == [procs[i] EXCEPT !.fileItem = NoObj]
               r == IF p.kind = "rebuild" THEN refreshLoop(T, p, i)
                                          ELSE [tree |-> T, proc |-> [p EXCEPT !.pc = "done"]]
           IN  Settle(r.tree, r.proc, i)
    /\ UNCHANGED <<coordVars, runVars>>

TreeNext ==
    \/ RefreshRequested
    \/ scanWorkspace
    \/ FsWrite
    \/ EventDelivered
    \/ ReadDirReturns
    \/ ReadFileReturns
    \/ FindFilesReturns
    \/ OpenDocReturns

(***************************************************************************)
(* Which files discovery takes for test files.  A .cs file is described by *)
(* the end of its name before the extension and by the markers its content *)
(* holds.                                                                  *)
(***************************************************************************)

\* The endings (Test|Tests|TestCase|Spec) of extension.ts:120 and of the glob
\* of test-discovery.ts:10, and a name with another ending.
NameEndings == {"Test", "Tests", "TestCase", "Spec", "Other"}

\* The attributes of test methods, those of test classes, and "using": the
\* name of a framework namespace (NUnit.Framework, Xunit,
\* Microsoft.VisualStudio.TestTools).
TestAttributes == {"Fact", "Theory", "Test", "TestMethod"}
Markers == TestAttributes \cup {"TestClass", "TestFixture", "using"}

\* extension.ts:119-122  isLikelyTestFile; the glob **/*{Test,Tests,TestCase,Spec}.cs
\* of test-discovery.ts:10 and csharp-test-controller.ts:994-997.
isLikelyTestFile(ending) == ending \in {"Test", "Tests", "TestCase", "Spec"}

\* part_000:145  hasTestClass
hasTestClass(markers) == markers \cap {"TestClass", "TestFixture", "Fact", "using"} # {}

\* csharp-test-controller.ts:432-445  isCSharpTestFile
isCSharpTestFile(markers) ==
    markers \cap {"Test", "TestClass", "TestFixture", "Fact", "Theory", "using"} # {}

\* part_000:122-132 extractTestItems, extension.ts:169-193 extractTestMethods,
\* csharp-test-controller.ts:450-507 findTestMethods, 1074-1101
\* parseTestMethods: a method is found for every attribute of a test method.
extractsTests(markers) == markers \cap TestAttributes # {}

\* Whether generation g reads the content of the file to look for methods.
\*   workspace   part_000:135-152  every .cs file is read; methods are looked
\*               for when hasTestClass
\*   folder      csharp-test-controller.ts:300-327  every .cs file is read;
\*               methods are looked for when isCSharpTestFile
\*   flat, functional   test-discovery.ts:29-44, part_000:453 and 473,
\*               csharp-test-controller.ts:994-1003: the files of the glob
isCandidate(g, ending, markers) ==
    CASE g = "workspace" -> hasTestClass(markers)
      [] g = "folder" -> isCSharpTestFile(markers)
      [] OTHER -> isLikelyTestFile(ending)

\* A file of the workspace that discovery has not seen yet.
ProbeStart ==
    /\ gen \in TreeGens
    /\ probe \in [ending : NameEndings, markers : SUBSET Markers,
                   state : {"found"}, leaves : {FALSE}]
    /\ fs = [f \in Files |-> "absent"]
    /\ rootItems = {}
    /\ kids = [o \in Objs |-> {}]
    /\ testItems = [id \in Ids |-> NoObj]
    /\ procs = <<>>
    /\ events = <<>>
    /\ nFs = 0
    /\ deletedDone = {}
    /\ unreadable = {}
    /\ special = FALSE
    /\ hidden = FALSE
    /\ extraction = NoExtraction
    /\ candidate = NoCandidate

\* Discovery reaches the file: it has test items afterwards when it is taken
\* for a candidate and test methods are found in it.
Classify ==
    /\ probe.state = "found"
    /\ probe' = [probe EXCEPT !.state = "classified",
                              !.leaves = /\ isCandidate(gen, probe.ending, probe.markers)
                                         /\ extractsTests(probe.markers)]
    /\ UNCHANGED <<gen, fs, rootItems, kids, testItems, procs, events, nFs, deletedDone,
                   unreadable, special, hidden, extraction, candidate>>
    /\ UNCHANGED <<coordVars, runVars>>

ClassifyNext == Classify

(***************************************************************************)
(* Extraction of the test methods of one file.  The content of the file is *)
(* the sequence of the attributes of its methods, in source order; every   *)
(* method is `public void` on the line after its attribute.  A match is    *)
(* known by its offset, the place of its method in the sequence.           *)
(***************************************************************************)

MaxMethods == 3

Attributes == {"Test", "TestCase", "Fact", "Theory", "TestMethod"}

Extractors == {"findTestMethods", "extractTestMethods"}

\* csharp-test-controller.ts:462-469  testMethodPatterns, each by the
\* attributes it matches: \[Test(Case)?.*?\] matches [TestMethod] too.
\* extension.ts:174  the one testMethodRegex; \[\s*(Fact|Theory|Test|
\* TestMethod)\s*\] does not match [TestCase].
testMethodPatterns(fn) ==
    IF fn = "findTestMethods"
      THEN << {"Test", "TestCase", "TestMethod"}, {"Fact", "Theory"}, {"TestMethod"} >>
      ELSE << {"Fact", "Theory", "Test", "TestMethod"} >>

\* The call with the content of a file.
ExtractStart ==
    /\ gen \in {"folder"}
    /\ extraction \in [fn : Extractors,
                        source : UNION {[1..n -> Attributes] : n \in 0..MaxMethods},
                        p : {1}, lastIndex : {0}, testMethods : {<<>>}, done : {FALSE}]
    /\ probe = NoProbe
    /\ fs = [f \in Files |-> "absent"]
    /\ rootItems = {}
    /\ kids = [o \in Objs |-> {}]
    /\ testItems = [id \in Ids |-> NoObj]
    /\ procs = <<>>
    /\ events = <<>>
    /\ nFs = 0
    /\ deletedDone = {}
    /\ unreadable = {}
    /\ special = FALSE
    /\ hidden = FALSE
    /\ candidate = NoCandidate

\* csharp-test-controller.ts:473-503 / extension.ts:177-192  one
\* regExp.exec(content): the next match after lastIndex is pushed; without a
\* match the loop of the pattern ends and the next pattern starts from the
\* beginning of the content, or the function returns.
regExpExec ==
    /\ ~extraction.done
    /\ LET x == extraction
           patterns == testMethodPatterns(x.fn)
           hits == {k \in (x.lastIndex + 1)..Len(x.source) : x.source[k] \in patterns[x.p]}
       IN  extraction' =
             IF hits # {}
               THEN LET k == CHOOSE h \in hits : \A g \in hits : h <= g
                    IN  [x EXCEPT !.testMethods = Append(@, k), !.lastIndex = k]
             ELSE IF x.p < Len(patterns)
               THEN [x EXCEPT !.p = @ + 1, !.lastIndex = 0]
             ELSE [x EXCEPT !.done = TRUE]
    /\ UNCHANGED <<gen, fs, rootItems, kids, testItems, procs, events, nFs, deletedDone,
                   unreadable, special, hidden, probe, candidate>>
    /\ UNCHANGED <<coordVars, runVars>>

ExtractNext == regExpExec

(***************************************************************************)
(* Which files belong to the tree, for the controllers that keep file      *)
(* items at the root: by the create event of the file and by a rescan.     *)
(* The base name of a .cs file, without its extension, is a sequence of    *)
(* words; the file lies in one of the folders of the workspace.            *)
(***************************************************************************)

MaxWords == 2
MaxFolders == 2

Words == {"Test", "Tests", "TestCase", "Spec", "test", "spec", "Foo"}

FileNames == UNION {[1..n -> Words] : n \in 1..MaxWords}

\* String.prototype.toLowerCase, on a word.
toLowerCase(w) ==
    CASE w \in {"Test", "test"} -> "test"
      [] w = "Tests" -> "tests"
      [] w = "TestCase" -> "testcase"
      [] w \in {"Spec", "spec"} -> "spec"
      [] OTHER -> "foo"

\* String.prototype.includes, of a base name and one of the words the code
\* looks for: the word begins some word of the name.
includes(name, s) ==
    \E k \in 1..Len(name) :
        CASE s = "Test" -> name[k] \in {"Test", "Tests", "TestCase"}
          [] s = "Tests" -> name[k] = "Tests"
          [] OTHER -> name[k] = s

\* The glob **/*{Test,Tests,TestCase,Spec}.cs of test-discovery.ts:10 and
\* csharp-test-controller.ts:996, which the host matches case-sensitively
\* against the files of the folder it is given.
globMatches(name) == name[Len(name)] \in {"Test", "Tests", "TestCase", "Spec"}

\* extension.ts:119-122  /(Test|Tests|TestCase|Spec)\.cs$/i
testPattern(name) == toLowerCase(name[Len(name)]) \in {"test", "tests", "testcase", "spec"}

\* test-discovery.ts:29-44, csharp-test-controller.ts:994-1003: the files a
\* rescan finds are those of workspaceFolders[0] that match the glob.
foundByRescan(name, folder) == folder = 1 /\ globMatches(name)

\* part_000:453 with test-discovery.ts:111-114 (isTestFile) for the flat
\* controller; csharp-test-controller.ts:1030-1038 (checkAndAddTestFile) for
\* the functional one.  The watcher covers **/*.cs in every folder.
addedByCreateEvent(g, name) ==
    IF g = "flat" THEN testPattern(name)
    ELSE includes(name, "Test") \/ includes(name, "Tests") \/ includes(name, "Spec")

\* A .cs file is created in the workspace.
CandidateStart ==
    /\ gen \in {"flat", "functional"}
    /\ candidate \in [name : FileNames, folder : 1..MaxFolders,
                       byEvent : {"pending"}, byScan : {"pending"}]
    /\ probe = NoProbe
    /\ extraction = NoExtraction
    /\ fs = [f \in Files |-> "absent"]
    /\ rootItems = {}
    /\ kids = [o \in Objs |-> {}]
    /\ testItems = [id \in Ids |-> NoObj]
    /\ procs = <<>>
    /\ events = <<>>
    /\ nFs = 0
    /\ deletedDone = {}
    /\ unreadable = {}
    /\ special = FALSE
    /\ hidden = FALSE

\* part_000:451-456, csharp-test-controller.ts:1030-1038: the create event of
\* the file is handled.
CreateEventHandled ==
    /\ candidate.byEvent = "pending"
    /\ candidate' = [candidate EXCEPT !.byEvent =
                        IF addedByCreateEvent(gen, candidate.name) THEN "added" ELSE "ignored"]
    /\ UNCHANGED <<gen, fs, rootItems, kids, testItems, procs, events, nFs, deletedDone,
                   unreadable, special, hidden, probe, extraction>>
    /\ UNCHANGED <<coordVars, runVars>>

\* part_000:429-442, csharp-test-controller.ts:986-1003: a rescan of the
\* same files has returned.
RescanDone ==
    /\ candidate.byScan = "pending"
    /\ candidate' = [candidate EXCEPT !.byScan =
                        IF foundByRescan(candidate.name, candidate.folder)
                          THEN "added" ELSE "ignored"]
    /\ UNCHANGED <<gen, fs, rootItems, kids, testItems, procs, events, nFs, deletedDone,
                   unreadable, special, hidden, probe, extraction>>
    /\ UNCHANGED <<coordVars, runVars>>

MemberNext ==
    \/ CreateEventHandled
    \/ RescanDone


(***************************************************************************)
(* Specifications.                                                         *)
(***************************************************************************)

\* The coordinator before its first event.
CoordIdle ==
    /\ initializeExtension
    /\ coordGen = "initializeExtension"
    /\ debounceDelay = 1
    /\ runWithCoverage = FALSE

RunInit == RunRequest /\ CoordIdle /\ TreeIdle

SpecRun == RunInit /\ [][RunNext]_vars

\* The run handlers with their scheduling: the event loop runs every
\* continuation that is ready, the host settles every lookup, the streams of
\* a process deliver what was written and the 500 ms timer of the simulated
\* execution expires.  Nothing makes a process exit, and nothing makes the
\* host cancel.
RunProgress ==
    /\ WF_vars(runHandler)
    /\ WF_vars(runHandlerSeq)
    /\ WF_vars(PromiseAllResolves)
    /\ WF_vars(LookupReturns)
    /\ WF_vars(ProcData)
    /\ WF_vars(SimulatedTestEnds)

SpecRunHung == RunInit /\ [][RunNext]_vars /\ RunProgress

\* The same, with processes that all exit in the end.
SpecRunLive == RunInit /\ [][RunNext]_vars /\ RunProgress /\ WF_vars(ProcClose)

\* executeDotnetTest on its own: the process of the single requested test m1
\* has been spawned (part_003:93) and will print any text on stdout.
ExecStart ==
    /\ variant \in {"concurrent", "sequential"}
    /\ include = <<"m1">>
    /\ exclude = {}
    /\ stdoutText \in SeqsUpTo(OutTokens, MaxOut)
    /\ stderrText = ErrLine
    /\ cancelled = FALSE
    /\ pc = IF variant = "concurrent" THEN "awaitAll" ELSE "loop"
    /\ queue = <<>>
    /\ tasks = <<[NewTask("m1", "proc") EXCEPT !.lookup = "found", !.spawned = TRUE]>>
    /\ runEnds = 0
    /\ sessions = <<>>
    /\ locator = NoCall

ExecNext ==
    \/ ProcData
    \/ ProcClose
    \/ PromiseAllResolves

ExecInit == ExecStart /\ CoordIdle /\ TreeIdle

SpecExec == ExecInit /\ [][ExecNext]_vars

DebugInit == DebugRequest /\ CoordIdle /\ TreeIdle

SpecDebug == DebugInit /\ [][DebugNext]_vars

\* A request of either kind: the host calls the run handler or the debug
\* handler of the profile the user chose.
HandlerCalled == RunRequest \/ DebugRequest

DebugPcs == {"debugRequested", "debugLookup", "startDebugging"}

HandlersInit == HandlerCalled /\ CoordIdle /\ TreeIdle

HandlersNext ==
    \/ pc \notin DebugPcs /\ RunNext
    \/ DebugNext

SpecHandlers == HandlersInit /\ [][HandlersNext]_vars

LocateInit == LocatorCall /\ CoordIdle /\ TreeIdle

\* The host settles every findFiles it was asked for.
SpecLocate == LocateInit /\ [][LocateNext]_vars /\ WF_vars(LocateNext)

ClassifyInit == ProbeStart /\ CoordIdle /\ RunIdle

SpecClassify == ClassifyInit /\ [][ClassifyNext]_vars

ExtractInit == ExtractStart /\ CoordIdle /\ RunIdle

SpecExtract == ExtractInit /\ [][ExtractNext]_vars

MemberInit == CandidateStart /\ CoordIdle /\ RunIdle

SpecMember == MemberInit /\ [][MemberNext]_vars

CoordInit == initializeExtension /\ RunIdle /\ TreeIdle

SpecCoord == CoordInit /\ [][CoordNext]_vars

\* The coordinator with its scheduling: the clock advances, a timer that is
\* due fires, and the host executes the testing.cancelRun command it is
\* asked for.  Nothing makes a run end, cancelled or not.
SpecCoordLive ==
    /\ CoordInit
    /\ [][CoordNext]_vars
    /\ WF_vars(Tick)
    /\ WF_vars(TimerFires)
    /\ WF_vars(OrphanTimerFires)
    /\ WF_vars(GraceExpires)
    /\ WF_vars(CancelRunReturns)

TreeInit == TreeStart /\ CoordIdle /\ RunIdle

SpecTree == TreeInit /\ [][TreeNext]_vars

\* The scans of a workspace that does not change and in which some reads
\* fail: the first rebuild of each controller and the refreshes requested
\* after it (the scans of the first controller), with any set of unreadable
\* files and directories.
ScanStart ==
    /\ gen \in TreeGens
    /\ fs \in [Files -> ScanContents]
    /\ rootItems = {}
    /\ kids = [o \in Objs |-> {}]
    /\ testItems = [id \in Ids |-> NoObj]
    /\ procs = IF gen = "workspace" THEN <<>>
               ELSE <<NewProc("rebuild", "init", Root, FirstAwait, 0, FALSE)>>
    /\ events = <<>>
    /\ nFs = 0
    /\ deletedDone = {}
    /\ unreadable \in SUBSET ({Dir} \cup Files)
    /\ special \in BOOLEAN
    /\ hidden \in BOOLEAN
    /\ extraction = NoExtraction
    /\ candidate = NoCandidate
    /\ probe = NoProbe

ScanNext ==
    \/ RefreshRequested
    \/ scanWorkspace
    \/ ReadDirReturns
    \/ ReadFileReturns
    \/ FindFilesReturns
    \/ OpenDocReturns

ScanInit == ScanStart /\ CoordIdle /\ RunIdle

SpecScan == ScanInit /\ [][ScanNext]_vars

(***************************************************************************)
(* Properties of the change coordinator.                                   *)
(***************************************************************************)

\* C1: a burst of events, each less than the debounce delay after the one
\* before, fires exactly one trigger, one debounce delay after the last
\* event of the burst, also when a run was in progress when the burst began.
\* Stated for the behaviours without a change of the delay setting: since the
\* latest event at most one trigger has fired, and it fired debounceDelay
\* after that event.
C1_OneTriggerTimedFromLastEvent ==
    nReconfig = 0 =>
        /\ trigSinceEvent <= 1
        /\ (trigSinceEvent >= 1 => lastTrigAt = lastEventAt + debounceDelay)

\* C10: two auto-triggered runs are never in progress together unless the
\* cancellation of the older one has been requested.  Stated for the
\* behaviours without a change of the delay setting.
C10_OlderRunCancelledBeforeNewRun ==
    nReconfig = 0 =>
        \A i, j \in 1..Len(autoRuns) : i < j => autoRuns[i].cancelRequested

(***************************************************************************)
(* Properties of the run orchestrator.                                     *)
(***************************************************************************)

\* C2: no leaf that is a descendant of a container listed in exclude is ever
\* marked started or dispatched, also when the leaf or an ancestor of it
\* below the excluded container is listed in include.
C2_NoDescendantOfExcludedStarted ==
    \A t \in 1..Len(tasks) : \A excluded \in exclude :
        ~isAncestorOf(excluded, tasks[t].test)

\* C8: once the token is signalled no leaf is newly marked started; a request
\* whose token is already cancelled when the handler begins starts no leaf
\* and spawns no process.
C8_NoLeafStartedAfterCancel ==
    \A t \in 1..Len(tasks) : ~tasks[t].startedCancelled

\* C9: run.end() is called only after every started leaf has reported its
\* terminal status, and nothing is reported to the run after run.end().
C9_EndAfterEveryStartedLeafSettled ==
    /\ pc = "ended" => \A t \in 1..Len(tasks) : tasks[t].status \in Statuses
    /\ \A t \in 1..Len(tasks) : ~tasks[t].late

\* C4: a leaf without uri, or whose project is not found, is reported
\* skipped, no process is spawned for it and no other status is reported.
C4_UnresolvedLeafSkippedWithoutProcess ==
    \A t \in 1..Len(tasks) :
        (~HasUri(tasks[t].test) \/ tasks[t].lookup = "notfound") =>
            /\ tasks[t].status = "skipped"
            /\ ~tasks[t].spawned
            /\ tasks[t].code = NoCode
            /\ tasks[t].pc = "done"

\* C4 happens: with other leaves in the run, a leaf whose project was not
\* found has been reported skipped.
C4_Witness ==
    /\ Len(tasks) >= 2
    /\ \E t \in 1..Len(tasks) : tasks[t].lookup = "notfound" /\ tasks[t].status = "skipped"
    /\ \E t \in 1..Len(tasks) : tasks[t].status = "passed"

\* The names the pattern Failed <name> [<details>] can bind in text.
FailedNames(text) ==
    {SubSeq(text, c[1] + c[2] + 1, c[1] + c[2] + c[3]) : c \in Matches(text)}

\* C3: when the process of a leaf closes, exit code 0 reports passed;
\* another exit code reports failed, with message 'Test failed: <name>' when
\* stdout holds a match of Failed <name> [<details>] and with 'Test failed'
\* when it holds none.
C3_ExitCodeDecidesStatus ==
    \A t \in 1..Len(tasks) :
        tasks[t].code # NoCode =>
            IF tasks[t].code = 0
              THEN tasks[t].status = "passed" /\ tasks[t].message = NoMessage
              ELSE /\ tasks[t].status = "failed"
                   /\ IF FailedNames(stdoutText) = {}
                        THEN tasks[t].message = GenericMessage
                        ELSE /\ tasks[t].message.kind = "Test failed: "
                             /\ tasks[t].message.name \in FailedNames(stdoutText)
                   /\ stdoutText = FailedLine
                        => tasks[t].message = NamedMessage(<<"w">>)

\* C3 happens: a process that printed Failed <name> [ ] closed with a
\* non-zero code and the leaf was reported failed with the name.
C3_Witness ==
    \E t \in 1..Len(tasks) :
        /\ tasks[t].code = 1
        /\ tasks[t].status = "failed"
        /\ tasks[t].message = NamedMessage(<<"w">>)
        /\ stdoutText = FailedLine

(***************************************************************************)
(* Properties of discovery.                                                *)
(***************************************************************************)

\* No handler in flight and no notification waiting.
Quiescent == Active = {} /\ events = <<>>

\* The ids of the items in the tree.
LiveIds == {n[1] : n \in SnapshotOf(Tree)}

IsMethod(id) == id \in {MethodId(f) : f \in Files}

\* Every container of the tree S has a test method below it.
NoEmptyContainer(S) ==
    \A n \in S :
        ~IsMethod(n[1]) =>
            \E c \in S : /\ c[2] = n[1]
                         /\ \/ IsMethod(c[1])
                            \/ \E g \in S : g[2] = c[1] /\ IsMethod(g[1])

\* The rebuilds that have returned and that no other handler overlapped.
RebuildsAlone ==
    {i \in 1..Len(procs) : /\ procs[i].kind = "rebuild"
                           /\ procs[i].pc = "done"
                           /\ ~procs[i].overlap}

\* C5: once the delete event of a test file has been fully processed (and
\* nothing else is in flight), the tree holds no item for the file nor for
\* its test methods, and none for its folder if the folder holds no other
\* test file.
C5_DeletedFileLeavesNoNode ==
    Quiescent =>
        \A f \in deletedDone :
            /\ f \notin LiveIds
            /\ MethodId(f) \notin LiveIds
            /\ (FolderOf(f) = Dir /\ \A g \in Files : FolderOf(g) = Dir => fs[g] = "absent")
                  => Dir \notin LiveIds

\* C6: the tree a completed rebuild leaves holds no folder and no file
\* without a test method below it.
C6_NoEmptyContainerAfterRebuild ==
    \A i \in 1..Len(procs) :
        (procs[i].kind = "rebuild" /\ procs[i].pc = "done") =>
            NoEmptyContainer(procs[i].snapshot)

\* C7: two rebuilds, the second begun after the first returned, with no
\* change on disk from the start of the first to the end of the second,
\* leave the same tree: same ids, same parents, same leaves.
C7_RebuildTwiceSameTree ==
    \A i, j \in RebuildsAlone :
        (i < j /\ procs[i].fsStart = procs[j].fsEnd) =>
            procs[i].snapshot = procs[j].snapshot

\* C7 happens: two such rebuilds of the folder controller have returned, and
\* the tree they left holds a folder, a file and a test method.
C7_Witness ==
    \E i, j \in RebuildsAlone :
        /\ i < j
        /\ gen = "folder"
        /\ procs[i].fsStart = procs[j].fsEnd
        /\ <<Dir, Root>> \in procs[j].snapshot
        /\ <<MethodId("d/BTest.cs"), "d/BTest.cs">> \in procs[j].snapshot

\* The tree one rebuild of generation g builds on the disk d0 when nothing
\* else runs: the folder controller drops every file and folder without a
\* test method, the flat controller keeps every file the pattern finds.
FullScan(g, d0) ==
    LET kept == IF g = "folder" THEN {f \in Files : Methods(d0[f]) # <<>>}
                                ELSE {f \in Files : d0[f] # "absent"}
    IN  {<<f, IF g = "folder" THEN FolderOf(f) ELSE Root>> : f \in kept}
          \cup {<<MethodId(f), f>> : f \in {h \in kept : Methods(d0[h]) # <<>>}}
          \cup {<<Dir, Root>> : f \in {h \in kept : g = "folder" /\ FolderOf(h) = Dir}}

\* C11: once every handler of the folder or the flat controller has returned
\* and every notification has been delivered, the tree is the tree one full
\* scan of the disk builds: no item of a deleted file, an item for every test
\* file, every file item reachable from the root.
C11_QuiescentTreeEqualsFullScan ==
    (Quiescent /\ gen \in {"folder", "flat"}) => SnapshotOf(Tree) = FullScan(gen, fs)

(***************************************************************************)
(* Properties of the run orchestrator: errors.                             *)
(***************************************************************************)

\* The leaves the request selects, in the order the handler reaches them.
RequestedLeaves == collectLeaves(InitialQueue)

\* C12: within a request that is not cancelled, whatever the leaves before it
\* ended with (failed, skipped, exception), every leaf the request selects is
\* dispatched: the concurrent handler has started all of them at once, a
\* sequential handler has started the next one as soon as a leaf has its
\* status; and at run.end() every selected leaf has a terminal status.
C12_FailedLeafDoesNotStopSiblings ==
    ~cancelled =>
        /\ Len(tasks) <= Len(RequestedLeaves)
        /\ \A t \in 1..Len(tasks) : tasks[t].test = RequestedLeaves[t]
        /\ (variant = "concurrent" /\ pc # "requested") => Len(tasks) = Len(RequestedLeaves)
        /\ \A t \in 1..Len(tasks) :
              (tasks[t].pc = "done" /\ t < Len(RequestedLeaves)) => Len(tasks) > t
        /\ pc = "ended" =>
              /\ Len(tasks) = Len(RequestedLeaves)
              /\ \A t \in 1..Len(tasks) : tasks[t].status \in Statuses

\* C12 happens: the sequential handler ended a run of three leaves of which the
\* first threw, the second failed and the third passed.
C12_Witness ==
    /\ variant = "sequential"
    /\ ~cancelled
    /\ pc = "ended"
    /\ Len(tasks) = 3
    /\ tasks[1].thrown
    /\ tasks[2].status = "failed" /\ tasks[2].code = 1
    /\ tasks[3].status = "passed"

\* The test files a scan can reach: present, holding a test method, readable
\* and in a directory that can be listed and is not hidden.
Discoverable ==
    {f \in Files : /\ Methods(fs[f]) # <<>>
                   /\ f \notin unreadable
                   /\ FolderOf(f) \notin unreadable
                   /\ ~(hidden /\ FolderOf(f) = Dir)}

\* C13: a scan of the workspace (one that no other scan overlaps) is never
\* aborted by a file that cannot be read, a directory that cannot be listed or an entry that is neither file
\* nor directory: its promise is not rejected and the tree it leaves holds the
\* test methods of every other test file.
C13_ScanSurvivesFailingEntry ==
    \A i \in 1..Len(procs) :
        (procs[i].kind = "rebuild" /\ procs[i].pc = "done" /\ ~procs[i].overlap) =>
            /\ ~procs[i].rejected
            /\ \A f \in Discoverable : <<MethodId(f), f>> \in procs[i].snapshot

\* C14: a leaf during whose dispatch an exception was thrown (by the project
\* lookup or by the start of the process) is reported errored with the text of
\* the exception, not failed.
C14_ThrownLeafReportedErrored ==
    \A t \in 1..Len(tasks) :
        tasks[t].thrown =>
            /\ tasks[t].status = "errored"
            /\ tasks[t].message = ExceptionMessage

\* The first leaf reachable depth-first from item n.
RECURSIVE firstLeafDepthFirst(_)
firstLeafDepthFirst(n) ==
    IF Len(Children(n)) = 0 THEN n ELSE firstLeafDepthFirst(Children(n)[1])

\* C15: a debug request starts at most one debug session and marks at most
\* one item started; that item has no children and is the first leaf
\* reachable depth-first from the first included item.
C15_DebugTargetIsFirstLeaf ==
    /\ Len(sessions) <= 1
    /\ Len(tasks) <= 1
    /\ \A n \in {tasks[t].test : t \in 1..Len(tasks)} \cup {sessions[k] : k \in 1..Len(sessions)} :
          /\ include # NoInclude
          /\ Len(include) > 0
          /\ Len(Children(n)) = 0
          /\ n = firstLeafDepthFirst(include[1])

\* The call of the locator has returned.
Located == pc = "locating" /\ locator.result # Searching

\* The directories the locator may inspect: the directory of the test file
\* and its ancestors, maxDepth of them at most.
InReach == {d \in 0..locator.testFileDir : locator.testFileDir - d < locator.maxDepth}

\* C16: the locator returns the project of the nearest directory within
\* reach that holds one, and not-found when no directory within reach holds
\* one; it inspects at most maxDepth directories, all of them the directory
\* of the file or an ancestor; and every call returns.
C16_NearestProjectWithinDepth ==
    /\ [](/\ locator.inspected \subseteq InReach
          /\ Located =>
                LET holding == InReach \cap locator.projects
                IN  IF holding = {} THEN locator.result = NotFound
                    ELSE /\ locator.result \in holding
                         /\ \A d \in holding : d <= locator.result)
    /\ <>Located

\* C16 happens: with the default depth, the project was found in the last
\* directory within reach and a farther directory holds a project too.
C16_Witness ==
    /\ Located
    /\ locator.maxDepth = DefaultMaxDepth
    /\ locator.result = locator.testFileDir - (DefaultMaxDepth - 1)
    /\ \E d \in locator.projects : d < locator.result

\* The rebuilds of the folder and the flat controller that have returned.
RebuildsDone ==
    {i \in 1..Len(procs) : procs[i].kind = "rebuild" /\ procs[i].pc = "done"}

C18_NameOrContentMakesTestFile ==
    probe.state = "classified" =>
        (probe.markers \cap TestAttributes # {} => probe.leaves)

\* C19: a change of a setting takes effect at once: every trigger executes the
\* command the runWithCoverage setting selects at the moment it fires, and
\* every timer that is armed expires one debounceTime, as configured at that
\* moment, later.
C19_SettingsReadWhenUsed ==
    [][/\ Len(autoRuns') > Len(autoRuns)
           => autoRuns'[Len(autoRuns')].coverage = runWithCoverage
       /\ (timeout' # NoTimer /\ timeout' # timeout)
           => timeout' = now + debounceDelay]_vars

\* The items of S that belong to a file other than f: the file items and the
\* items of their test methods. The files whose deletion event was handled
\* are left out, their items being removed by that event.
ItemsOfOtherFiles(S, f) ==
    {x \in S : \E g \in Files \ ({f} \cup deletedDone) : x[1][1] \in {g, MethodId(g)}}

\* The handler calls of a change event for a file that had an item in the
\* tree: returned, overlapped by no other call, with no change on disk since
\* the event, no event waiting, and nothing else begun since.
ChangesProcessed ==
    {i \in 1..Len(procs) : /\ procs[i].trigger = "change"
                           /\ procs[i].pc = "done"
                           /\ ~procs[i].overlap
                           /\ i = Len(procs)
                           /\ procs[i].fsEnd = nFs
                           /\ events = <<>>
                           /\ \E x \in procs[i].before : x[1][1] = procs[i].tpath}

\* C20: after the change event of a file that is in the tree has been
\* processed, the children of the file's item are the test methods of its
\* content now, and the items of the other files are the items that were
\* there before: none added, none removed, none replaced.
C20_ChangeTouchesOneFile ==
    \A i \in ChangesProcessed :
        LET f == procs[i].tpath
        IN  /\ {n[1] : n \in {x \in SnapshotOf(Tree) : x[2] = f}}
                  = (IF Methods(fs[f]) # <<>> THEN {MethodId(f)} ELSE {})
            /\ ItemsOfOtherFiles(ReachableItems, f) = ItemsOfOtherFiles(procs[i].before, f)

(***************************************************************************)
(* Properties of discovery: concurrency.                                   *)
(***************************************************************************)

\* The handler calls that await the read of file f to extract its methods.
Extracting(f) ==
    {i \in Active : procs[i].pc \in {"opendoc", "readfile"} /\ procs[i].path = f}

\* C21: at no time are two extractions of the test methods of one file in
\* flight: an event or a refresh that reaches a file while an earlier call
\* still awaits the read of that file starts no second extraction of it.
C21_OneExtractionPerFile ==
    \A f \in Files : Cardinality(Extracting(f)) <= 1

(***************************************************************************)
(* Properties of the run orchestrator: selection and dispatch.             *)
(***************************************************************************)

\* C22: an item that is itself listed in exclude is never marked started nor
\* dispatched, whether the handler reaches it from an included container or
\* finds it in include.
C22_ExcludedLeafNeverStarted ==
    \A t \in 1..Len(tasks) : tasks[t].test \notin exclude

\* The items of the request's tree that stand for a test method.
IsTestMethodNode(n) == n \in {"m1", "m2"}

\* C23: only items of test methods are marked started and dispatched; a file
\* or a folder item never is, not even a file item without children.
C23_OnlyTestMethodsStarted ==
    \A t \in 1..Len(tasks) : IsTestMethodNode(tasks[t].test)

\* C24: within one request an item is marked started at most once and at most
\* one process is spawned for it, also when include lists a container and
\* one of its descendants, or one item twice.
C24_LeafStartedAtMostOnce ==
    \A s, t \in 1..Len(tasks) : tasks[s].test = tasks[t].test => s = t

\* C25: run.started of a leaf comes before every other report for it and
\* before the spawn of its process, and the leaf gets at most one terminal
\* status per dispatch.  As steps: a leaf enters the run with run.started
\* and without a status (or, lacking a uri, skipped at once); a process is
\* spawned only for a leaf that was started in an earlier step and has no
\* status yet; and a status once reported is never followed by another
\* report or by a spawn.
C25_StartedThenOneTerminalStatus ==
    [][\A t \in 1..Len(tasks') :
          /\ t > Len(tasks) =>
                /\ ~tasks'[t].spawned
                /\ \/ tasks'[t].status = "none"
                   \/ ~HasUri(tasks'[t].test) /\ tasks'[t].status = "skipped"
          /\ (t <= Len(tasks) /\ tasks[t].status \in Statuses) =>
                /\ tasks'[t].status = tasks[t].status
                /\ tasks'[t].spawned = tasks[t].spawned
          /\ (t <= Len(tasks) /\ tasks'[t].spawned /\ ~tasks[t].spawned) =>
                tasks[t].status = "none"]_vars

\* C25 happens: of two leaves started, one was reported after its process
\* closed and the other was reported skipped without a process.
C25_Witness ==
    \E s, t \in 1..Len(tasks) :
        /\ tasks[s].spawned /\ tasks[s].code # NoCode /\ tasks[s].status \in {"passed", "failed"}
        /\ ~tasks[t].spawned /\ tasks[t].status = "skipped"

\* C26: no leaf waits for the process of another leaf: in a request that is
\* not cancelled, when the handler awaits the lookup or the process of any
\* leaf, every leaf the request selects has been marked started and its
\* project lookup begun.
C26_AllLeavesStartedBeforeAnyAwait ==
    (~cancelled /\ \E t \in 1..Len(tasks) : tasks[t].pc \in {"lookup", "proc", "simWait"}) =>
        /\ Len(tasks) = Len(RequestedLeaves)
        /\ \A t \in 1..Len(tasks) : tasks[t].test = RequestedLeaves[t]

(***************************************************************************)
(* Properties of the run orchestrator: termination.                        *)
(***************************************************************************)

\* C27: when the token of a run is signalled while the process of a leaf is
\* running, the handler ends the run in the end, even if the process never
\* exits.
C27_CancelledRunEndsDespiteHungProcess ==
    (cancelled /\ \E t \in 1..Len(tasks) : tasks[t].pc = "proc") ~> (pc = "ended")

\* C28: when every project lookup returns and every process that was spawned
\* closes, every run request ends with run.end(), and when the run ends
\* without having been cancelled every leaf that was marked started has a
\* terminal status.
C28_EveryRunEnds ==
    /\ <>(pc = "ended")
    /\ []((pc = "ended" /\ ~cancelled) =>
             \A t \in 1..Len(tasks) : tasks[t].status \in Statuses)

\* C28 happens: a run that was not cancelled has ended with two leaves whose
\* processes closed, one passed and one failed, and one leaf skipped.
C28_Witness ==
    /\ pc = "ended"
    /\ ~cancelled
    /\ Len(tasks) = 3
    /\ \E t \in 1..3 : tasks[t].code = 0 /\ tasks[t].status = "passed"
    /\ \E t \in 1..3 : tasks[t].code = 1 /\ tasks[t].status = "failed"
    /\ \E t \in 1..3 : tasks[t].lookup = "notfound" /\ tasks[t].status = "skipped"

(***************************************************************************)
(* Properties of the change coordinator: progress.                         *)
(***************************************************************************)

\* The clock of the model has reached its bound with a timer, a grace period
\* or a handler still pending.
ClockRanOut ==
    /\ now = MaxTime
    /\ \/ timeout > now
       \/ \E i \in 1..Len(orphanTimers) : orphanTimers[i] > now
       \/ handlers # <<>>

\* C29: once events stop arriving, the latest event (a watcher notification
\* or the refresh command) has been followed by a trigger, also when the run
\* that was asked to cancel never ends: the handler waits for the cancel
\* command and the grace period only, then arms the timer.
C29_EveryEventFollowedByTrigger ==
    <>[](nEvents > 0 => (trigSinceEvent > 0 \/ ClockRanOut))

\* C29 happens: an event found a run in progress and asked to cancel it, the
\* run has not ended, and the trigger of the event has fired.
C29_Witness ==
    /\ trigSinceEvent > 0
    /\ Len(autoRuns) >= 2
    /\ autoRuns[1].cancelRequested
    /\ ~autoRuns[Len(autoRuns)].cancelRequested
    /\ handlers = <<>>

(***************************************************************************)
(* Properties of the workspace scan.                                       *)
(***************************************************************************)

\* The scans of the class Workspace that returned a tree.
ScansDone ==
    {i \in 1..Len(procs) : procs[i].scanner # "none" /\ ~procs[i].rejected}

\* The containers of the tree S (the root node included) and whether
\* container n has a test method among its descendants.
ContainersOf(S) == {Root} \cup {n[1] : n \in {x \in S : ~IsMethod(x[1])}}

RECURSIVE HasLeafBelow(_, _, _)
HasLeafBelow(S, n, depth) ==
    \E c \in S : /\ c[2] = n
                 /\ \/ IsMethod(c[1])
                    \/ depth > 0 /\ HasLeafBelow(S, c[1], depth - 1)

\* C30: in the tree of every workspace scan, hasTests of a folder or file
\* node is true exactly when the node has a test method among its
\* descendants.
C30_HasTestsIffLeafBelow ==
    \A i \in ScansDone : \A n \in ContainersOf(procs[i].snapshot) :
        (n \in procs[i].hasTests) <=> HasLeafBelow(procs[i].snapshot, n, 2)

(***************************************************************************)
(* Properties of discovery: what the events leave in the tree.             *)
(***************************************************************************)

\* The handler calls of a create or change event that have returned,
\* overlapped by no other call, with no change on disk since the event, no
\* event waiting and nothing else begun since.
EventsProcessed ==
    {i \in 1..Len(procs) : /\ procs[i].trigger \in {"create", "change"}
                           /\ procs[i].pc = "done"
                           /\ ~procs[i].overlap
                           /\ i = Len(procs)
                           /\ procs[i].fsEnd = nFs
                           /\ events = <<>>}

\* C31: after a create or change event of a file from which no test method
\* is extracted, the tree holds no item for the file, and none for its
\* folder when the folder is left without children.
C31_FileWithoutLeafRemoved ==
    \A i \in EventsProcessed :
        LET f == procs[i].tpath
        IN  Methods(fs[f]) = <<>> =>
              /\ f \notin LiveIds
              /\ \A n \in SnapshotOf(Tree) :
                    n[1] = Dir => \E c \in SnapshotOf(Tree) : c[2] = Dir

\* The directory d, its file and the test method of the file.
BelowDir == {Dir} \cup {f \in Files : FolderOf(f) = Dir}
              \cup {MethodId(f) : f \in {g \in Files : FolderOf(g) = Dir}}

\* C32: when the name of the directory d starts with '.', no scan of the
\* workspace creates an item for it, reads it or a file in it, or adds
\* anything below it to the tree.
C32_HiddenDirectorySkipped ==
    hidden =>
        /\ \A n \in SnapshotOf(Tree) : n[1] \notin BelowDir
        /\ \A i \in 1..Len(procs) :
              /\ \A n \in procs[i].snapshot : n[1] \notin BelowDir
              /\ i \in Active => procs[i].path \notin BelowDir

\* C33: when the directory where the locator finds a match holds more than
\* one project descriptor, the one returned is the first by name.
C33_FirstDescriptorByName ==
    (Located /\ locator.result # NotFound) => locator.picked = 1

\* C34: the leaves extracted from one file are in source order: the offsets
\* of the matches returned are increasing, also when the methods carry the
\* attributes of different frameworks.
C34_LeavesInSourceOrder ==
    extraction.done =>
        \A i, j \in 1..Len(extraction.testMethods) :
            i < j => extraction.testMethods[i] < extraction.testMethods[j]

\* The debug request has ended after startDebugging was called.
DebugLaunched == pc = "ended" /\ Len(tasks) = 1 /\ tasks[1].lookup = "found"

\* C35: when the start of the debug session fails, by an exception or by a
\* launch reported as failed, the selected leaf is reported failed with the
\* text of the failure; when the session starts, neither passed nor failed is
\* reported.
C35_FailedLaunchReportedFailed ==
    DebugLaunched =>
        IF tasks[1].spawned
          THEN tasks[1].status \notin {"passed", "failed"}
          ELSE /\ tasks[1].status = "failed"
               /\ tasks[1].message \in {DebugFailedMessage, ExceptionMessage}

\* C36: a handler ends its run exactly once: run.end() is never called
\* twice, and a handler that has returned has called it, whichever way it
\* went (completion, cancellation, no test, project not found, exception).
C36_RunEndedExactlyOnce ==
    /\ runEnds <= 1
    /\ pc = "ended" <=> runEnds = 1

\* C36 happens: a debug request without a test to debug has returned with
\* its run ended.
C36_Witness ==
    /\ pc = "ended"
    /\ runEnds = 1
    /\ tasks = <<>>
    /\ stdoutText = <<>>

\* The debounce timers that are set and have not fired.
PendingTimers == (IF timeout = NoTimer THEN 0 ELSE 1) + Len(orphanTimers)

\* C37: at most one debounce timer is pending at every moment, also across
\* a change of the debounceTime setting, and the events up to the last one
\* are followed by one trigger at most: an event before the change and an
\* event after it do not make two triggers.
C37_OneTimerPending ==
    /\ PendingTimers <= 1
    /\ trigSinceEvent <= 1

\* An auto-triggered run that was not asked to cancel is in progress.
LiveAutoRun == \E r \in 1..Len(autoRuns) : ~autoRuns[r].cancelRequested

\* C38: in the coordinator with the flag, testsRunning is true exactly while
\* an auto-triggered run that was not asked to cancel is in progress.
C38_FlagTracksLiveRun ==
    coordGen = "initializeExtension" => (testsRunning <=> LiveAutoRun)

\* C39: in the coordinator with the flag, an error thrown by the command of
\* a trigger does not leave the timer callback, and once no run is in
\* progress testsRunning is false again, so that the next event arms a timer
\* at once.
C39_ThrownCommandLeavesCoordinatorIdle ==
    coordGen = "initializeExtension" =>
        /\ cmdError.fate # "unhandled"
        /\ (cmdError.fate = "logged" /\ autoRuns = <<>>) => ~testsRunning

\* C39 happens: a command threw, a later event armed the timer and its
\* trigger fired one delay after it.
C39_Witness ==
    /\ coordGen = "initializeExtension"
    /\ cmdError.fate = "logged"
    /\ cmdError.trigger
    /\ trigSinceEvent = 1
    /\ orphanTimers = <<>>
    /\ nReconfig = 0
    /\ lastTrigAt = lastEventAt + wait

\* C40: the create event of a file adds a file item for it if and only if a
\* rescan of the same files includes it.
C40_EventAndRescanAgree ==
    (candidate.byEvent # "pending" /\ candidate.byScan # "pending") =>
        (candidate.byEvent = "added" <=> candidate.byScan = "added")

====
